---- MODULE Spec2Model ----
(***************************************************************************)
(* Offline synchronisation of the veterinary surgery case tracker:         *)
(* the durable operation queue (utils/offlineQueue.ts), the write path of  *)
(* the mutations (hooks/useQueries.ts) and the sync engine                 *)
(* (useOfflineSync in hooks/useCallerRoleDebug.ts), one instance of which  *)
(* lives in every component that calls the hook.                           *)
(***************************************************************************)
EXTENDS Integers, Sequences, FiniteSets, TLC

(***************************************************************************)
(* Bounds of the model.                                                    *)
(***************************************************************************)
\* number of operations the key generator of the queue store hands out
MaxOps == 2
\* number of storage (IndexedDB) requests that fail in one behaviour
MaxStorageFaults == 1
\* number of mutations one behaviour runs
MaxWrites == 1
\* replay calls counted per operation; the counter stops there
MaxExec == 2
\* the actor takes createCase while nextId is below this
MaxNextId == 2
\* the actor takes a call that assigns to-do ids while nextToDoId is below this
MaxNextToDoId == 3

(***************************************************************************)
(* Values.                                                                 *)
(***************************************************************************)
Undefined == [kind |-> "undefined"]
Null == [kind |-> "null"]
NoError == <<>>

\* the identity of the session; a second identity owns foreign data
principal == "A"
Principals == {"A", "B"}

\* the components that call useOfflineSync(), each with its own hook state
Hooks == {"listener", "indicator", "dialog"}

CaseIds == {1, 2}
TodoIds == {7}
Times == {1, 2}

ChecklistFields ==
  {"dischargeNotes", "pdvmNotified", "labs", "histo", "surgeryReport", "imaging", "culture"}

\* the flag of SurgeryCase a checklist field selects
FlagOf(field) ==
  CASE field = "dischargeNotes" -> "dischargeNotesComplete"
    [] field = "pdvmNotified" -> "pdvmNotified"
    [] field = "labs" -> "labsComplete"
    [] field = "histo" -> "histoComplete"
    [] field = "surgeryReport" -> "surgeryReportComplete"
    [] field = "imaging" -> "imagingComplete"
    [] field = "culture" -> "cultureComplete"

\* methodMap of syncOperation
methodMap(field) ==
  CASE field = "dischargeNotes" -> "toggleDischargeNotes"
    [] field = "pdvmNotified" -> "togglePdvmNotified"
    [] field = "labs" -> "toggleLabs"
    [] field = "histo" -> "toggleHisto"
    [] field = "surgeryReport" -> "toggleSurgeryReport"
    [] field = "imaging" -> "toggleImaging"
    [] field = "culture" -> "toggleCulture"

\* the method a toggle mutation hook calls
ToggleMethod(field) ==
  CASE field = "dischargeNotes" -> "toggleDischargeNotes"
    [] field = "pdvmNotified" -> "togglePdvmNotified"
    [] field = "labs" -> "toggleLabs"
    [] field = "histo" -> "toggleHisto"
    [] field = "surgeryReport" -> "toggleSurgeryReport"
    [] field = "imaging" -> "toggleImaging"
    [] field = "culture" -> "toggleCulture"

\* two form payloads (CaseFormData)
FormP ==
  [mrn |-> "M1", patientFirstName |-> "Rex", patientLastName |-> "Doe",
   dateOfBirth |-> "2020-01-01", arrivalDate |-> 5, species |-> "canine",
   breed |-> "lab", sex |-> "male", presentingComplaint |-> "limp",
   dischargeNotesComplete |-> TRUE, pdvmNotified |-> TRUE, labsComplete |-> FALSE,
   histoComplete |-> FALSE, surgeryReportComplete |-> FALSE, imagingComplete |-> FALSE,
   cultureComplete |-> FALSE, notes |-> ""]

FormQ ==
  [mrn |-> "M2", patientFirstName |-> "Tom", patientLastName |-> "Roe",
   dateOfBirth |-> "2019-05-05", arrivalDate |-> 0, species |-> "feline",
   breed |-> "dsh", sex |-> "female", presentingComplaint |-> "mass",
   dischargeNotesComplete |-> FALSE, pdvmNotified |-> FALSE, labsComplete |-> TRUE,
   histoComplete |-> FALSE, surgeryReportComplete |-> FALSE, imagingComplete |-> FALSE,
   cultureComplete |-> FALSE, notes |-> "n"]

Forms == {FormP, FormQ}

Todo7 == [id |-> 7, description |-> "Labs Complete", complete |-> FALSE]

\* SurgeryCase as the views hold it: the form fields, an id and the to-dos
CaseOf(id, data, todos) == [id |-> id, data |-> data, todos |-> todos]

(***************************************************************************)
(* Error messages are character sequences, so that String.includes is a    *)
(* real substring search.                                                  *)
(***************************************************************************)
MsgFailedToFetch ==
  <<"F", "a", "i", "l", "e", "d", " ", "t", "o", " ", "f", "e", "t", "c", "h">>
MsgCaseDoesNotExist ==
  <<"C", "a", "s", "e", " ", "d", "o", "e", "s", " ", "n", "o", "t", " ",
    "e", "x", "i", "s", "t">>
MsgQuota == <<"Q", "u", "o", "t", "a", "E", "x", "c", "e", "e", "d", "e", "d">>
MsgSyntaxError ==
  <<"C", "a", "n", "n", "o", "t", " ", "c", "o", "n", "v", "e", "r", "t", " ",
    "t", "o", " ", "a", " ", "B", "i", "g", "I", "n", "t">>
MsgUnknownError ==
  <<"U", "n", "k", "n", "o", "w", "n", " ", "e", "r", "r", "o", "r">>

\* the rejections a remote call can end with: a transport failure and a trap
NetworkErrors == {MsgFailedToFetch}
AppErrors == {MsgCaseDoesNotExist}
RemoteErrors == NetworkErrors \cup AppErrors

\* String.prototype.includes
includes(message, pattern) ==
  \E i \in 1..(Len(message) - Len(pattern) + 1) :
    SubSeq(message, i, i + Len(pattern) - 1) = pattern

\* an error value: its message property and what toString() gives
ErrorValue(message, string) == [message |-> message, string |-> string]

\* new Error(message): toString() is "Error: " followed by the message
ErrorOf(message) ==
  ErrorValue(message, <<"E", "r", "r", "o", "r", ":", " ">> \o message)

\* error.message || error.toString(): the empty string is falsy
MessageText(error) == IF error.message # <<>> THEN error.message ELSE error.string

\* isNetworkError that looks at the message property only
isNetworkErrorOfMessage(error) ==
  IF error = Null \/ error = Undefined THEN FALSE
  ELSE LET message == error.message
       IN \/ includes(message, <<"n", "e", "t", "w", "o", "r", "k">>)
          \/ includes(message, <<"f", "e", "t", "c", "h">>)
          \/ includes(message, <<"o", "f", "f", "l", "i", "n", "e">>)
          \/ includes(message, <<"F", "a", "i", "l", "e", "d", " ", "t", "o", " ", "f", "e", "t", "c", "h">>)
          \/ includes(message, <<"N", "e", "t", "w", "o", "r", "k", "E", "r", "r", "o", "r">>)

\* isNetworkError: substring match on the message text of the error
isNetworkError(error) ==
  IF error = Null \/ error = Undefined THEN FALSE
  ELSE LET message == MessageText(error)
       IN \/ includes(message, <<"n", "e", "t", "w", "o", "r", "k">>)
          \/ includes(message, <<"f", "e", "t", "c", "h">>)
          \/ includes(message, <<"o", "f", "f", "l", "i", "n", "e">>)
          \/ includes(message, <<"F", "a", "i", "l", "e", "d", " ", "t", "o", " ", "f", "e", "t", "c", "h">>)
          \/ includes(message, <<"N", "e", "t", "w", "o", "r", "k", "E", "r", "r", "o", "r">>)

\* an application of isNetworkError and what it returned
Classified(error, result) == [error |-> error, result |-> result]
NoProbe == Classified(Undefined, FALSE)

\* `temp-${Date.now()}`
TempId(now) == [prefix |-> "temp-", digits |-> now]

\* BigInt(string): a SyntaxError unless the string is a numeral
BigIntOf(s) ==
  IF s.prefix = "" THEN [ok |-> TRUE, value |-> s.digits]
  ELSE [ok |-> FALSE, value |-> MsgSyntaxError]

\* getCheckedTodoDescriptions
getCheckedTodoDescriptions(data) ==
  (IF data.dischargeNotesComplete THEN <<"Discharge Notes Complete">> ELSE <<>>)
  \o (IF data.pdvmNotified THEN <<"pDVM Notified">> ELSE <<>>)
  \o (IF data.labsComplete THEN <<"Labs Complete">> ELSE <<>>)
  \o (IF data.histoComplete THEN <<"Histopathology Complete">> ELSE <<>>)
  \o (IF data.surgeryReportComplete THEN <<"Surgery Report Complete">> ELSE <<>>)
  \o (IF data.imagingComplete THEN <<"Imaging Complete">> ELSE <<>>)
  \o (IF data.cultureComplete THEN <<"Culture Complete">> ELSE <<>>)


(***************************************************************************)
(* The operation queue store (object store 'operationQueue', key path      *)
(* 'id', autoIncrement, index 'principal').  The store is a set of records *)
(* and a key generator; a read through the store or the index returns the  *)
(* records in ascending key order.                                         *)
(***************************************************************************)
RECURSIVE AscendingById(_)
AscendingById(S) ==
  IF S = {} THEN <<>>
  ELSE LET m == CHOOSE o \in S : \A p \in S : o.id <= p.id
       IN <<m>> \o AscendingById(S \ {m})

RECURSIVE DescendingById(_)
DescendingById(S) ==
  IF S = {} THEN <<>>
  ELSE LET m == CHOOSE o \in S : \A p \in S : o.id >= p.id
       IN <<m>> \o DescendingById(S \ {m})

\* index.getAll(principal)
IndexGetAll(q, p) == AscendingById({o \in q : o.principal = p})

\* getPendingOperations that returns the newest operation first
getPendingOperationsNewestFirst(q, p) ==
  SelectSeq(DescendingById({o \in q : o.principal = p}),
            LAMBDA o : o.status = "pending" \/ o.status = "failed")

\* getPendingOperations(principal)
getPendingOperations(q, p) ==
  SelectSeq(IndexGetAll(q, p), LAMBDA o : o.status = "pending" \/ o.status = "failed")

\* enqueueOperation: store.add assigns the next key
enqueueOperation(q, key, operation) ==
  q \cup {operation @@ [id |-> key + 1]}

\* updateOperationStatus that puts a record whether or not it found one
updateOperationStatusPut(q, id, status, error) ==
  IF \E o \in q : o.id = id
  THEN {IF o.id = id
          THEN [o EXCEPT !.status = status,
                         !.lastError = IF error # NoError THEN error ELSE @]
          ELSE o : o \in q}
  ELSE q \cup {[id |-> id, status |-> status, lastError |-> error]}

\* updateOperationStatus(id, status, error?)
updateOperationStatus(q, id, status, error) ==
  {IF o.id = id
     THEN [o EXCEPT !.status = status,
                    !.lastError = IF error # NoError THEN error ELSE @]
     ELSE o : o \in q}

\* removeOperation that deletes nothing
removeOperationNoop(q, id) == q

\* removeOperation(id)
removeOperation(q, id) == {o \in q : o.id # id}

\* clearAllOperations that deletes the operations of every principal
clearAllOperationsOfAll(q, p) ==
  {o \in q : o.status # "pending" /\ o.status # "failed"}

\* clearAllOperations(principal)
clearAllOperations(q, p) ==
  LET operations == getPendingOperations(q, p)
  IN {o \in q : \A i \in 1..Len(operations) : operations[i].id # o.id}

\* the fields every queued operation has (BaseOperation without id)
BaseOperation(now) ==
  [principal |-> principal, createdAt |-> now, status |-> "pending", lastError |-> NoError]

(***************************************************************************)
(* The remote store (backend/main.mo): the counters nextId and nextToDoId  *)
(* and the map of cases.  A method is a function of the state of the actor *)
(* and its arguments that gives the state after the call and the reply; a  *)
(* trap leaves the state as it was.  The caller has the permission the     *)
(* method asks for.                                                        *)
(***************************************************************************)
Actor(nextId, nextToDoId, cases) ==
  [nextId |-> nextId, nextToDoId |-> nextToDoId, cases |-> cases]

\* var nextId = 0; var nextToDoId = 0; let cases = Map.empty()
EmptyActor == Actor(0, 0, {})

Reply(state, error, value) == [state |-> state, error |-> error, value |-> value]

\* Runtime.trap("Case does not exist")
Trap(b) == Reply(b, MsgCaseDoesNotExist, Undefined)

\* cases.containsKey(id)
containsKey(cases, id) == \E c \in cases : c.id = id

\* cases.get(id); used where the key is present
casesGet(cases, id) == CHOOSE c \in cases : c.id = id

\* cases.add(id, record): the record replaces the one stored under the id
casesAdd(cases, record) == {c \in cases : c.id # record.id} \cup {record}

\* createCase; a missing arrival date (0 here) becomes Time.now()
createCase(b, data, todoDescriptions, now) ==
  LET id == b.nextId + 1
      todos == [i \in 1..Len(todoDescriptions) |->
                  [id |-> b.nextToDoId + i, description |-> todoDescriptions[i],
                   complete |-> FALSE]]
      caseRecord == CaseOf(id, [data EXCEPT !.arrivalDate = IF @ # 0 THEN @ ELSE now],
                           todos)
  IN Reply(Actor(id, b.nextToDoId + Len(todoDescriptions), casesAdd(b.cases, caseRecord)),
           NoError, id)

\* updateCase: the record is replaced by the fields and the to-dos given
updateCase(b, id, data, todos) ==
  IF ~containsKey(b.cases, id) THEN Trap(b)
  ELSE Reply([b EXCEPT !.cases = casesAdd(@, CaseOf(id, data, todos))], NoError, Undefined)

\* deleteCase
deleteCase(b, id) ==
  IF ~containsKey(b.cases, id) THEN Trap(b)
  ELSE Reply([b EXCEPT !.cases = {c \in @ : c.id # id}], NoError, Undefined)

\* the flag a toggle method of the actor flips
FlagOfMethod(method) ==
  CASE method = "toggleDischargeNotes" -> "dischargeNotesComplete"
    [] method = "togglePdvmNotified" -> "pdvmNotified"
    [] method = "toggleLabs" -> "labsComplete"
    [] method = "toggleHisto" -> "histoComplete"
    [] method = "toggleSurgeryReport" -> "surgeryReportComplete"
    [] method = "toggleImaging" -> "imagingComplete"
    [] method = "toggleCulture" -> "cultureComplete"

\* toggleDischargeNotes .. toggleCulture: the flag is flipped and returned
toggleFlag(b, method, id) ==
  IF ~containsKey(b.cases, id) THEN Trap(b)
  ELSE LET caseRecord == casesGet(b.cases, id)
           newState == ~caseRecord.data[FlagOfMethod(method)]
       IN Reply([b EXCEPT !.cases =
                   casesAdd(@, [caseRecord EXCEPT !.data[FlagOfMethod(method)] = newState])],
                NoError, newState)

\* importCases: every record is stored under its id; nextId follows the
\* largest id, nextToDoId is not touched
RECURSIVE importCases(_, _)
importCases(b, casesArray) ==
  IF casesArray = <<>> THEN Reply(b, NoError, Undefined)
  ELSE LET caseRecord == Head(casesArray)
           stored == [b EXCEPT !.cases = casesAdd(@, caseRecord),
                               !.nextId = IF caseRecord.id > @ THEN caseRecord.id ELSE @]
       IN importCases(stored, Tail(casesArray))

\* addTodoItem
addTodoItem(b, caseId, description) ==
  IF ~containsKey(b.cases, caseId) THEN Trap(b)
  ELSE LET caseRecord == casesGet(b.cases, caseId)
           todo == [id |-> b.nextToDoId + 1, description |-> description,
                    complete |-> FALSE]
       IN Reply([b EXCEPT !.nextToDoId = @ + 1,
                          !.cases = casesAdd(@, [caseRecord EXCEPT
                                                   !.todos = Append(@, todo)])],
                NoError, todo.id)

\* toggleTodoComplete: every to-do of the case with this id is flipped
toggleTodoComplete(b, caseId, todoId) ==
  IF ~containsKey(b.cases, caseId) THEN Trap(b)
  ELSE LET caseRecord == casesGet(b.cases, caseId)
           updatedTodos == [i \in 1..Len(caseRecord.todos) |->
                              IF caseRecord.todos[i].id = todoId
                              THEN [caseRecord.todos[i] EXCEPT !.complete = ~@]
                              ELSE caseRecord.todos[i]]
       IN Reply([b EXCEPT !.cases = casesAdd(@, [caseRecord EXCEPT
                                                   !.todos = updatedTodos])],
                NoError, Undefined)

\* deleteTodoItem: every to-do of the case with this id is dropped
deleteTodoItem(b, caseId, todoId) ==
  IF ~containsKey(b.cases, caseId) THEN Trap(b)
  ELSE LET caseRecord == casesGet(b.cases, caseId)
           updatedTodos == SelectSeq(caseRecord.todos, LAMBDA todo : todo.id # todoId)
       IN Reply([b EXCEPT !.cases = casesAdd(@, [caseRecord EXCEPT
                                                   !.todos = updatedTodos])],
                NoError, Undefined)

\* the actor executes a call of the client (Call(method, args)) at time `now`
Execute(b, call, now) ==
  CASE call.method = "createCase" -> createCase(b, call.args[1], call.args[2], now)
    [] call.method = "updateCase" ->
         updateCase(b, call.args[1], call.args[2], call.args[3])
    [] call.method = "deleteCase" -> deleteCase(b, call.args[1])
    [] call.method = "addTodoItem" -> addTodoItem(b, call.args[1], call.args[2])
    [] call.method = "toggleTodoComplete" ->
         toggleTodoComplete(b, call.args[1], call.args[2])
    [] call.method = "deleteTodoItem" -> deleteTodoItem(b, call.args[1], call.args[2])
    [] OTHER -> toggleFlag(b, call.method, call.args[1])

(***************************************************************************)
(* State.                                                                  *)
(***************************************************************************)
VARIABLES
  isOnline,     \* useOfflineStatus().isOnline, and whether the transport works
  queue,        \* the records of the operationQueue store
  nextKey,      \* the key generator of the operationQueue store
  faultBudget,  \* storage requests that can still fail
  qcCases,      \* query data of ['cases']
  qcCase,       \* query data of ['case', id]
  invalidated,  \* query keys invalidated and not yet re-fetched
  writes,       \* the mutations run so far: what each did and how it ended
  listCache,    \* the caseList store: principal -> cached list
  caseCache,    \* the cases store: caseId -> cache entry
  hook,         \* the state of useOfflineSync in each component
  task,         \* the replay each drain pass or retry is running
  remoteExec,   \* per operation id: replay calls the remote store executed
  lastRead,     \* how the last run of a read query ended
  ui,           \* the identity and the confirmation dialog of the session
  probe,        \* the last application of a function of the stores
  backend       \* the state of the actor: nextId, nextToDoId and the cases

vars == <<isOnline, queue, nextKey, faultBudget, qcCases, qcCase, invalidated,
          writes, listCache, caseCache, hook, task, remoteExec, lastRead, ui,
          probe, backend>>

storeVars == <<queue, nextKey, faultBudget>>
viewVars == <<qcCases, qcCase, invalidated>>
cacheVars == <<listCache, caseCache>>
engineVars == <<hook, task, remoteExec>>
auxVars == <<lastRead, ui, probe, backend>>

\* the outcomes of one remote call: NoError for a reply, else the rejection;
\* without connectivity every call fails in the transport
RemoteOutcomes == IF isOnline THEN {NoError} \cup RemoteErrors ELSE NetworkErrors

\* a storage request either completes or, while the budget lasts, fails
StorageOutcomes == IF faultBudget > 0 THEN {TRUE, FALSE} ELSE {TRUE}

RemoteValue == [kind |-> "remote"]
NoValue == [kind |-> "void"]

WriteRecord(type, args, calls, failure, outcome, value, enqueued) ==
  [type |-> type, args |-> args, calls |-> calls, failure |-> failure,
   outcome |-> outcome, value |-> value, enqueued |-> enqueued]

Call(method, args) == [method |-> method, args |-> args]

(***************************************************************************)
(* The write path: one action per mutation hook of useQueries.ts.  A       *)
(* mutation runs its remote call, and after a rejection classified as a    *)
(* network error enqueues the operation and changes the query data; when   *)
(* mutationFn resolves, onSuccess invalidates the queries.                 *)
(***************************************************************************)
KeyCases == <<"cases">>
KeyCaseCount == <<"caseCount">>
KeyCase(id) == <<"case", id>>

\* the remote call replied: mutationFn resolves with the reply, onSuccess runs
Resolve(type, args, calls, keys) ==
  /\ writes' = Append(writes,
                 WriteRecord(type, args, calls, NoError, "returned", RemoteValue, <<>>))
  /\ invalidated' = invalidated \cup keys
  /\ UNCHANGED <<queue, nextKey, faultBudget, qcCases, qcCase>>

\* a mutation that swallows the rejection and resolves with nothing
RejectSwallowed(type, args, calls, r) ==
  /\ writes' = Append(writes, WriteRecord(type, args, calls, r, "returned", NoValue, <<>>))
  /\ UNCHANGED <<queue, nextKey, faultBudget, qcCases, qcCase, invalidated>>

\* throw error: mutationFn rejects with the rejection of the remote call
Reject(type, args, calls, r) ==
  /\ writes' = Append(writes, WriteRecord(type, args, calls, r, "threw", r, <<>>))
  /\ UNCHANGED <<queue, nextKey, faultBudget, qcCases, qcCase, invalidated>>

\* a branch that changes the query data before it awaits enqueueOperation
EnqueueAfterOptimistic(type, args, calls, r, storageOk, operation, optimistic, keys) ==
  /\ nextKey < MaxOps
  /\ IF optimistic.ok
     THEN /\ qcCases' = optimistic.cases
          /\ qcCase' = optimistic.detail
          /\ IF ~storageOk
             THEN /\ faultBudget' = faultBudget - 1
                  /\ writes' = Append(writes,
                                 WriteRecord(type, args, calls, r, "threw", MsgQuota, <<>>))
                  /\ UNCHANGED <<queue, nextKey, invalidated>>
             ELSE /\ queue' = enqueueOperation(queue, nextKey, operation)
                  /\ nextKey' = nextKey + 1
                  /\ invalidated' = invalidated \cup keys
                  /\ writes' = Append(writes,
                                 WriteRecord(type, args, calls, r, "returned",
                                             optimistic.value, <<nextKey + 1>>))
                  /\ UNCHANGED faultBudget
     ELSE /\ writes' = Append(writes,
                         WriteRecord(type, args, calls, r, "threw", optimistic.value, <<>>))
          /\ UNCHANGED <<queue, nextKey, faultBudget, qcCases, qcCase, invalidated>>

\* the branch isNetworkError(error): enqueue, then the optimistic update.
\* `optimistic` is [ok, cases, detail, value]: whether the update ran to its
\* end, the query data it leaves and the placeholder the mutation returns.
Enqueue(type, args, calls, r, storageOk, operation, optimistic, keys) ==
  /\ nextKey < MaxOps
  /\ IF ~storageOk
     THEN \* enqueueOperation rejects with the storage error
          /\ faultBudget' = faultBudget - 1
          /\ writes' = Append(writes,
                         WriteRecord(type, args, calls, r, "threw", MsgQuota, <<>>))
          /\ UNCHANGED <<queue, nextKey, qcCases, qcCase, invalidated>>
     ELSE /\ queue' = enqueueOperation(queue, nextKey, operation)
          /\ nextKey' = nextKey + 1
          /\ UNCHANGED faultBudget
          /\ IF optimistic.ok
             THEN /\ qcCases' = optimistic.cases
                  /\ qcCase' = optimistic.detail
                  /\ invalidated' = invalidated \cup keys
                  /\ writes' = Append(writes,
                                 WriteRecord(type, args, calls, r, "returned",
                                             optimistic.value, <<nextKey + 1>>))
             ELSE /\ writes' = Append(writes,
                                 WriteRecord(type, args, calls, r, "threw",
                                             optimistic.value, <<nextKey + 1>>))
                  /\ UNCHANGED <<qcCases, qcCase, invalidated>>

\* the common shape of mutationFn once the remote call ended with `r`
Mutation(type, args, calls, r, storageOk, operation, optimistic, keys) ==
  IF r = NoError THEN Resolve(type, args, calls, keys)
  ELSE IF isNetworkError(ErrorOf(r))
  THEN Enqueue(type, args, calls, r, storageOk, operation, optimistic, keys)
  ELSE Reject(type, args, calls, r)

\* query data that is a list of cases
ListData(cases) == [kind |-> "list", cases |-> cases]

\* (old = []) => ...
OldList == IF qcCases = Undefined THEN <<>> ELSE qcCases.cases

\* setQueryData(['case', id], (old) => old ? updated : null), where `updated`
\* is what the updater makes of the old value
SetDetail(id, updated) ==
  [qcCase EXCEPT ![id] = IF @ = Undefined \/ @ = Null THEN Null ELSE updated]

\* useCreateCase
useCreateCase(data, r, now, storageOk) ==
  LET todoDescriptions == getCheckedTodoDescriptions(data)
      tempId == TempId(now)
      big == BigIntOf(tempId)
      operation == [type |-> "createCase", data |-> data, tempId |-> tempId]
                     @@ BaseOperation(now)
      optimistic ==
        IF big.ok
        THEN [ok |-> TRUE,
              cases |-> ListData(Append(OldList,
                          CaseOf(big.value,
                                 [data EXCEPT !.arrivalDate =
                                    IF @ # 0 THEN @ ELSE now * 1000000],
                                 <<>>))),
              detail |-> qcCase,
              value |-> big.value]
        ELSE [ok |-> FALSE, cases |-> qcCases, detail |-> qcCase, value |-> big.value]
  IN /\ Len(writes) < MaxWrites
     /\ r \in RemoteOutcomes
     /\ Mutation("createCase", [data |-> data],
                 <<Call("createCase", <<data, todoDescriptions>>)>>,
                 r, storageOk, operation, optimistic, {KeyCases, KeyCaseCount})
     /\ UNCHANGED <<isOnline, cacheVars, engineVars, auxVars>>

\* useUpdateCase; `todos` is Undefined when the caller passes none, and then
\* `current` is what actor.getCase(id) replies: Null or the to-dos of the case
useUpdateCase(id, data, todos, r0, current, r, now, storageOk) ==
  LET todosToSave == IF todos # Undefined THEN todos.list
                     ELSE IF current # Null THEN current.list ELSE <<>>
      args == [id |-> id, data |-> data, todos |-> todos]
      getCall == IF todos = Undefined THEN <<Call("getCase", <<id>>)>> ELSE <<>>
      operation == [type |-> "updateCase", caseId |-> id, data |-> data,
                    todos |-> todosToSave] @@ BaseOperation(now)
      optimistic ==
        [ok |-> TRUE,
         cases |-> ListData([i \in 1..Len(OldList) |->
                      IF OldList[i].id = id
                      THEN [OldList[i] EXCEPT !.data = data, !.todos = todosToSave]
                      ELSE OldList[i]]),
         detail |-> qcCase,
         value |-> NoValue]
  IN /\ Len(writes) < MaxWrites
     /\ r0 \in RemoteOutcomes
     /\ r \in RemoteOutcomes
     /\ IF todos = Undefined /\ r0 # NoError
        THEN \* actor.getCase is awaited outside the try block
             Reject("updateCase", args, getCall, r0)
        ELSE Mutation("updateCase", args,
                      getCall \o <<Call("updateCase", <<id, data, todosToSave>>)>>,
                      r, storageOk, operation, optimistic,
                      {KeyCases, KeyCase(id), KeyCaseCount})
     /\ UNCHANGED <<isOnline, cacheVars, engineVars, auxVars>>

\* useDeleteCase
useDeleteCase(id, r, now, storageOk) ==
  LET operation == [type |-> "deleteCase", caseId |-> id] @@ BaseOperation(now)
      optimistic ==
        [ok |-> TRUE,
         cases |-> ListData(SelectSeq(OldList, LAMBDA c : c.id # id)),
         detail |-> qcCase,
         value |-> NoValue]
  IN /\ Len(writes) < MaxWrites
     /\ r \in RemoteOutcomes
     /\ Mutation("deleteCase", [id |-> id], <<Call("deleteCase", <<id>>)>>,
                 r, storageOk, operation, optimistic, {KeyCases, KeyCaseCount})
     /\ UNCHANGED <<isOnline, cacheVars, engineVars, auxVars>>

\* useToggleDischargeNotes .. useToggleCulture, one hook per checklist field
useToggleChecklist(field, id, r, now, storageOk) ==
  LET flag == FlagOf(field)
      operation == [type |-> "toggleChecklist", caseId |-> id, field |-> field]
                     @@ BaseOperation(now)
      Flip(old) == [old EXCEPT !.data[flag] = ~@]
      detail == SetDetail(id, Flip(qcCase[id]))
      optimistic ==
        [ok |-> TRUE,
         cases |-> qcCases,
         detail |-> detail,
         \* !queryClient.getQueryData(['case', id])?.flag
         value |-> IF detail[id] = Null THEN TRUE ELSE ~detail[id].data[flag]]
  IN /\ Len(writes) < MaxWrites
     /\ r \in RemoteOutcomes
     /\ Mutation("toggleChecklist", [id |-> id, field |-> field],
                 <<Call(ToggleMethod(field), <<id>>)>>,
                 r, storageOk, operation, optimistic, {KeyCases, KeyCase(id)})
     /\ UNCHANGED <<isOnline, cacheVars, engineVars, auxVars>>

\* useAddTodoItem
useAddTodoItem(caseId, description, r, now, storageOk) ==
  LET operation == [type |-> "addTodo", caseId |-> caseId, description |-> description,
                    tempId |-> TempId(now)] @@ BaseOperation(now)
      tempIdBigInt == now
      AddTo(old) ==
        [old EXCEPT !.todos =
           Append(@, [id |-> tempIdBigInt, description |-> description, complete |-> FALSE])]
      optimistic ==
        [ok |-> TRUE, cases |-> qcCases, detail |-> SetDetail(caseId, AddTo(qcCase[caseId])),
         value |-> tempIdBigInt]
  IN /\ Len(writes) < MaxWrites
     /\ r \in RemoteOutcomes
     /\ Mutation("addTodo", [caseId |-> caseId, description |-> description],
                 <<Call("addTodoItem", <<caseId, description>>)>>,
                 r, storageOk, operation, optimistic, {KeyCases, KeyCase(caseId)})
     /\ UNCHANGED <<isOnline, cacheVars, engineVars, auxVars>>

\* useToggleTodoComplete
useToggleTodoComplete(caseId, todoId, r, now, storageOk) ==
  LET operation == [type |-> "toggleTodo", caseId |-> caseId, todoId |-> todoId]
                     @@ BaseOperation(now)
      ToggleIn(old) ==
        [old EXCEPT !.todos =
           [i \in 1..Len(@) |->
              IF @[i].id = todoId THEN [@[i] EXCEPT !.complete = ~@] ELSE @[i]]]
      optimistic ==
        [ok |-> TRUE, cases |-> qcCases, detail |-> SetDetail(caseId, ToggleIn(qcCase[caseId])),
         value |-> NoValue]
  IN /\ Len(writes) < MaxWrites
     /\ r \in RemoteOutcomes
     /\ Mutation("toggleTodo", [caseId |-> caseId, todoId |-> todoId],
                 <<Call("toggleTodoComplete", <<caseId, todoId>>)>>,
                 r, storageOk, operation, optimistic, {KeyCases, KeyCase(caseId)})
     /\ UNCHANGED <<isOnline, cacheVars, engineVars, auxVars>>

\* useDeleteTodoItem
useDeleteTodoItem(caseId, todoId, r, now, storageOk) ==
  LET operation == [type |-> "deleteTodo", caseId |-> caseId, todoId |-> todoId]
                     @@ BaseOperation(now)
      DeleteIn(old) ==
        [old EXCEPT !.todos = SelectSeq(@, LAMBDA todo : todo.id # todoId)]
      optimistic ==
        [ok |-> TRUE, cases |-> qcCases, detail |-> SetDetail(caseId, DeleteIn(qcCase[caseId])),
         value |-> NoValue]
  IN /\ Len(writes) < MaxWrites
     /\ r \in RemoteOutcomes
     /\ Mutation("deleteTodo", [caseId |-> caseId, todoId |-> todoId],
                 <<Call("deleteTodoItem", <<caseId, todoId>>)>>,
                 r, storageOk, operation, optimistic, {KeyCases, KeyCase(caseId)})
     /\ UNCHANGED <<isOnline, cacheVars, engineVars, auxVars>>

(***************************************************************************)
(* The durable cache (utils/offlineDb.ts) and the two read queries.        *)
(***************************************************************************)
\* saveCaseListCache: the caseList store is keyed by principal
saveCaseListCache(lc, p, cases) == [lc EXCEPT ![p] = [principal |-> p, cases |-> cases]]

\* getCaseListCache that finds no entry
getCaseListCacheMiss(lc, p) == Null

\* getCaseListCache: cache ? cache.cases : null
getCaseListCache(lc, p) == IF lc[p] = Undefined THEN Null ELSE ListData(lc[p].cases)

\* saveCaseCache: the cases store is keyed by caseId alone
saveCaseCache(cc, p, caseData) ==
  [cc EXCEPT ![caseData.id] = [principal |-> p, caseData |-> caseData]]

\* getCaseCache that does not compare the principal of the entry
getCaseCacheOfAnyPrincipal(cc, p, caseId) ==
  IF cc[caseId] # Undefined THEN cc[caseId].caseData ELSE Null

\* getCaseCache
getCaseCache(cc, p, caseId) ==
  IF cc[caseId] # Undefined /\ cc[caseId].principal = p THEN cc[caseId].caseData ELSE Null

\* clearCacheForPrincipal: delete the list entry of the principal, then the
\* entries of the cases store the index 'principal' returns for it
clearCacheForPrincipal(lc, cc, p) ==
  [list |-> [lc EXCEPT ![p] = Undefined],
   cases |-> [id \in DOMAIN cc |->
                IF cc[id] # Undefined /\ cc[id].principal = p THEN Undefined ELSE cc[id]]]

\* what the remote store may hold
Remote1 == CaseOf(1, FormP, <<Todo7>>)
Remote2 == CaseOf(2, FormQ, <<>>)
RemoteLists == {<<>>, <<Remote1, Remote2>>}
RemoteCase(id) == IF id = 1 THEN Remote1 ELSE Remote2

\* the actor after the calls that made the two cases: createCase gave the
\* ids 1 and 2, and seven to-dos were made before Todo7 stayed
RemoteStore == Actor(2, 7, {Remote1, Remote2})

\* the state of a query after queryFn ran: data on a return, error on a throw
ReadResult(key, error, data, source) ==
  [key |-> key, error |-> error, data |-> data, source |-> source]
NoRead == ReadResult(<<"none">>, NoError, Undefined, "none")

\* useListCases.queryFn, with the reply `cases` of actor.listCases(); the
\* storage request of the run (the save, or the read of the cache) may fail
useListCases(r, cases, storageOk) ==
  LET cached == getCaseListCache(listCache, principal)
  IN /\ r \in RemoteOutcomes
     /\ cases \in RemoteLists
     /\ IF r = NoError
        THEN IF storageOk
             THEN /\ listCache' = saveCaseListCache(listCache, principal, cases)
                  /\ qcCases' = ListData(cases)
                  /\ invalidated' = invalidated \ {KeyCases}
                  /\ lastRead' = ReadResult(KeyCases, NoError, ListData(cases), "remote")
                  /\ UNCHANGED faultBudget
             ELSE \* the storage error is not a network error: the query fails
                  /\ faultBudget' = faultBudget - 1
                  /\ lastRead' = ReadResult(KeyCases, MsgQuota, Undefined, "none")
                  /\ UNCHANGED <<listCache, qcCases, invalidated>>
        ELSE /\ UNCHANGED listCache
             /\ IF ~isNetworkError(ErrorOf(r))
                THEN /\ lastRead' = ReadResult(KeyCases, r, Undefined, "none")
                     /\ storageOk
                     /\ UNCHANGED <<qcCases, invalidated, faultBudget>>
                ELSE IF ~storageOk
                THEN \* the rejection of getCaseListCache leaves the catch block
                     /\ faultBudget' = faultBudget - 1
                     /\ lastRead' = ReadResult(KeyCases, MsgQuota, Undefined, "none")
                     /\ UNCHANGED <<qcCases, invalidated>>
                ELSE IF cached # Null
                THEN /\ qcCases' = cached
                     /\ invalidated' = invalidated \ {KeyCases}
                     /\ lastRead' = ReadResult(KeyCases, NoError, cached, "cache")
                     /\ UNCHANGED faultBudget
                ELSE /\ lastRead' = ReadResult(KeyCases, r, Undefined, "none")
                     /\ UNCHANGED <<qcCases, invalidated, faultBudget>>
     /\ UNCHANGED <<isOnline, queue, nextKey, qcCase, writes, caseCache, engineVars,
                    ui, probe, backend>>

\* useGetCase.queryFn, with the reply `caseData` of actor.getCase(id)
useGetCase(id, r, caseData, storageOk) ==
  LET cached == getCaseCache(caseCache, principal, id)
  IN /\ r \in RemoteOutcomes
     /\ caseData \in {Null, RemoteCase(id)}
     /\ IF r = NoError
        THEN IF caseData = Null
             THEN /\ qcCase' = [qcCase EXCEPT ![id] = Null]
                  /\ invalidated' = invalidated \ {KeyCase(id)}
                  /\ lastRead' = ReadResult(KeyCase(id), NoError, Null, "remote")
                  /\ storageOk
                  /\ UNCHANGED <<caseCache, faultBudget>>
             ELSE IF storageOk
             THEN /\ caseCache' = saveCaseCache(caseCache, principal, caseData)
                  /\ qcCase' = [qcCase EXCEPT ![id] = caseData]
                  /\ invalidated' = invalidated \ {KeyCase(id)}
                  /\ lastRead' = ReadResult(KeyCase(id), NoError, caseData, "remote")
                  /\ UNCHANGED faultBudget
             ELSE /\ faultBudget' = faultBudget - 1
                  /\ lastRead' = ReadResult(KeyCase(id), MsgQuota, Undefined, "none")
                  /\ UNCHANGED <<caseCache, qcCase, invalidated>>
        ELSE /\ UNCHANGED caseCache
             /\ IF ~isNetworkError(ErrorOf(r))
                THEN /\ lastRead' = ReadResult(KeyCase(id), r, Undefined, "none")
                     /\ storageOk
                     /\ UNCHANGED <<qcCase, invalidated, faultBudget>>
                ELSE IF ~storageOk
                THEN /\ faultBudget' = faultBudget - 1
                     /\ lastRead' = ReadResult(KeyCase(id), MsgQuota, Undefined, "none")
                     /\ UNCHANGED <<qcCase, invalidated>>
                ELSE IF cached # Null
                THEN /\ qcCase' = [qcCase EXCEPT ![id] = cached]
                     /\ invalidated' = invalidated \ {KeyCase(id)}
                     /\ lastRead' = ReadResult(KeyCase(id), NoError, cached, "cache")
                     /\ UNCHANGED faultBudget
                ELSE /\ lastRead' = ReadResult(KeyCase(id), r, Undefined, "none")
                     /\ UNCHANGED <<qcCase, invalidated, faultBudget>>
     /\ UNCHANGED <<isOnline, queue, nextKey, qcCases, writes, listCache, engineVars,
                    ui, probe, backend>>

(***************************************************************************)
(* The sync engine, useOfflineSync.  Every component that calls the hook   *)
(* has its own isSyncing and pendingOps (useState).  A drain pass of a     *)
(* hook and the retry started from the dialog are tasks that are suspended *)
(* at every await: the storage requests and the remote call.               *)
(***************************************************************************)
Slots == Hooks \cup {"retry"}

\* the hook instance a task belongs to
Owner(s) == IF s = "retry" THEN "dialog" ELSE s

\* error.message || 'Unknown error'
MessageOf(error) == IF error # NoError THEN error ELSE MsgUnknownError

\* the copy of a stored operation a hook holds in memory.  Replay reads the
\* id, the type and the arguments of the copy, and the copy is never written
\* back, so its status and lastError are kept as they were enqueued.
Copy(o) == [o EXCEPT !.status = "pending", !.lastError = NoError]

\* the result of getPendingOperations as a hook holds it
Copies(ops) == [i \in 1..Len(ops) |-> Copy(ops[i])]

\* the ids of a sequence of operations, in order
Ids(ops) == [i \in 1..Len(ops) |-> ops[i].id]

\* the effect "auto-sync when coming online" of one hook instance, run after
\* a render in which isOnline or pendingOps.length changed: it calls
\* syncAll(), whose guard it repeats
AutoSync(h, online) ==
  IF online /\ Len(h.pendingOps) > 0 /\ ~h.isSyncing
  THEN [h EXCEPT !.isSyncing = TRUE]
  ELSE h

IdleTask == [pc |-> "idle", ops |-> <<>>, idx |-> 0, successCount |-> 0,
             failCount |-> 0, error |-> NoError, issued |-> <<>>,
             returned |-> <<>>, remote |-> "none"]

\* the replay a hook is running once syncAll() has set isSyncing
StartedTask(t, before, after) ==
  IF ~before.isSyncing /\ after.isSyncing THEN [IdleTask EXCEPT !.pc = "get"] ELSE t

\* the 'offline' event
GoOffline ==
  /\ isOnline
  /\ isOnline' = FALSE
  /\ UNCHANGED <<storeVars, viewVars, writes, cacheVars, hook, task, remoteExec, auxVars>>

\* the 'online' event, the render it causes and the effects of that render
GoOnline ==
  /\ ~isOnline
  /\ isOnline' = TRUE
  /\ hook' = [h \in Hooks |-> AutoSync(hook[h], TRUE)]
  /\ task' = [s \in DOMAIN task |->
                IF s \in Hooks THEN StartedTask(task[s], hook[s], hook'[s]) ELSE task[s]]
  /\ UNCHANGED <<storeVars, viewVars, writes, cacheVars, remoteExec, auxVars>>

CurrentOp(s) == task[s].ops[task[s].idx]

\* the remote call syncOperation issues for an operation
ReplayCall(op) ==
  CASE op.type = "createCase" -> Call("createCase", <<op.data, <<>>>>)
    [] op.type = "updateCase" -> Call("updateCase", <<op.caseId, op.data, op.todos>>)
    [] op.type = "deleteCase" -> Call("deleteCase", <<op.caseId>>)
    [] op.type = "toggleChecklist" -> Call(methodMap(op.field), <<op.caseId>>)
    [] op.type = "addTodo" -> Call("addTodoItem", <<op.caseId, op.description>>)
    [] op.type = "toggleTodo" -> Call("toggleTodoComplete", <<op.caseId, op.todoId>>)
    [] op.type = "deleteTodo" -> Call("deleteTodoItem", <<op.caseId, op.todoId>>)

\* syncOperation(op) up to its first await: the remote call is issued
Issue(t, ops, i) ==
  [t EXCEPT !.pc = "call", !.ops = ops, !.idx = i, !.error = NoError,
            !.issued = Append(@, ops[i].id), !.remote = "none"]

\* loadPendingOps at mount (the effect of the hook)
loadPendingOps(h, storageOk) ==
  /\ hook[h].mounting
  /\ IF storageOk
     THEN LET loaded == [hook[h] EXCEPT !.mounting = FALSE,
                           !.pendingOps = Copies(getPendingOperations(queue, principal))]
              after == IF Len(loaded.pendingOps) # Len(hook[h].pendingOps)
                       THEN AutoSync(loaded, isOnline) ELSE loaded
          IN /\ hook' = [hook EXCEPT ![h] = after]
             /\ task' = [task EXCEPT ![h] = StartedTask(@, hook[h], after)]
             /\ UNCHANGED faultBudget
     ELSE /\ hook' = [hook EXCEPT ![h].mounting = FALSE]
          /\ faultBudget' = faultBudget - 1
          /\ UNCHANGED task
  /\ UNCHANGED <<isOnline, queue, nextKey, viewVars, writes, cacheVars, auxVars,
                 remoteExec>>

\* "Sync Now" of the status indicator: handleSyncNow and the guard of syncAll
SyncNow ==
  LET h == "indicator"
  IN /\ isOnline /\ ~hook[h].isSyncing /\ Len(hook[h].pendingOps) > 0
     /\ hook' = [hook EXCEPT ![h].isSyncing = TRUE]
     /\ task' = [task EXCEPT ![h] = [IdleTask EXCEPT !.pc = "get"]]
     /\ UNCHANGED <<isOnline, storeVars, viewVars, writes, cacheVars, auxVars,
                    remoteExec>>

\* syncAll after setIsSyncing(true): the snapshot is read from the store
syncAll(h, storageOk) ==
  /\ task[h].pc = "get"
  /\ IF ~storageOk
     THEN \* catch: toast 'Sync failed'; finally
          /\ faultBudget' = faultBudget - 1
          /\ task' = [task EXCEPT ![h] = IdleTask]
          /\ hook' = [hook EXCEPT ![h].isSyncing = FALSE]
     ELSE LET ops == Copies(getPendingOperations(queue, principal))
          IN /\ UNCHANGED faultBudget
             /\ IF Len(ops) = 0
                THEN /\ task' = [task EXCEPT ![h] = IdleTask]
                     /\ hook' = [hook EXCEPT ![h].isSyncing = FALSE]
                ELSE /\ task' = [task EXCEPT ![h] = Issue(@, ops, 1)]
                     /\ UNCHANGED hook
  /\ UNCHANGED <<isOnline, queue, nextKey, viewVars, writes, cacheVars, auxVars,
                 remoteExec>>

\* retryOperation(opId) of the pending-changes dialog: the operation is taken
\* from the pendingOps of the hook
retryOperation(opId) ==
  LET h == "dialog"
      found == SelectSeq(hook[h].pendingOps, LAMBDA o : o.id = opId)
  IN /\ ~hook[h].isSyncing
     /\ task["retry"].pc = "idle"
     /\ Len(found) > 0
     /\ task' = [task EXCEPT !["retry"] = Issue(IdleTask, <<found[1]>>, 1)]
     /\ UNCHANGED <<isOnline, storeVars, viewVars, writes, cacheVars, auxVars, hook,
                    remoteExec>>

\* the remote call of the current operation returns
RemoteReturn(s, r) ==
  /\ task[s].pc = "call"
  /\ r \in RemoteOutcomes
  /\ IF r = NoError
     THEN /\ remoteExec' = [remoteExec EXCEPT ![CurrentOp(s).id] =
                              IF @ < MaxExec THEN @ + 1 ELSE @]
          /\ task' = [task EXCEPT ![s].pc = "mark", ![s].remote = "resolved"]
     ELSE /\ task' = [task EXCEPT ![s].pc = "fail", ![s].error = MessageOf(r),
                                  ![s].remote = "rejected"]
          /\ UNCHANGED remoteExec
  /\ UNCHANGED <<isOnline, storeVars, viewVars, writes, cacheVars, hook, auxVars>>

\* the remote call of the current operation returns from an actor whose
\* state is followed: online the actor executes the call and replies or
\* traps, offline the call fails in the transport
RemoteReplies(s) ==
  LET reply == Execute(backend, ReplayCall(CurrentOp(s)), 1)
      r == IF isOnline THEN reply.error ELSE MsgFailedToFetch
  IN /\ task[s].pc = "call"
     /\ IF r = NoError
        THEN /\ remoteExec' = [remoteExec EXCEPT ![CurrentOp(s).id] =
                                 IF @ < MaxExec THEN @ + 1 ELSE @]
             /\ backend' = reply.state
             /\ task' = [task EXCEPT ![s].pc = "mark", ![s].remote = "resolved"]
        ELSE /\ task' = [task EXCEPT ![s].pc = "fail", ![s].error = MessageOf(r),
                                     ![s].remote = "rejected"]
             /\ UNCHANGED <<remoteExec, backend>>
     /\ UNCHANGED <<isOnline, storeVars, viewVars, writes, cacheVars, hook, lastRead,
                    ui, probe>>

\* await updateOperationStatus(op.id, 'succeeded')
MarkSucceeded(s, storageOk) ==
  /\ task[s].pc = "mark"
  /\ IF storageOk
     THEN /\ queue' = updateOperationStatus(queue, CurrentOp(s).id, "succeeded", NoError)
          /\ task' = [task EXCEPT ![s].pc = "remove"]
          /\ UNCHANGED faultBudget
     ELSE /\ faultBudget' = faultBudget - 1
          /\ task' = [task EXCEPT ![s].pc = "fail", ![s].error = MsgQuota]
          /\ UNCHANGED queue
  /\ UNCHANGED <<isOnline, nextKey, viewVars, writes, cacheVars, auxVars, hook,
                 remoteExec>>

\* a loop of syncAll that leaves at the first operation that fails
AfterOperationStop(t, s, success) ==
  LET counted == IF success THEN [t EXCEPT !.successCount = @ + 1]
                 ELSE [t EXCEPT !.failCount = @ + 1]
      logged == [counted EXCEPT !.returned = Append(@, <<t.ops[t.idx].id, success>>)]
  IN IF s # "retry" /\ t.idx < Len(t.ops) /\ success
     THEN [logged EXCEPT !.pc = "call", !.idx = t.idx + 1, !.error = NoError,
                         !.issued = Append(@, t.ops[t.idx + 1].id),
                         !.remote = "none"]
     ELSE [logged EXCEPT !.pc = "reload", !.error = NoError]

\* the loop of syncAll after syncOperation returned, or retryOperation
AfterOperation(t, s, success) ==
  LET counted == IF success THEN [t EXCEPT !.successCount = @ + 1]
                 ELSE [t EXCEPT !.failCount = @ + 1]
      logged == [counted EXCEPT !.returned = Append(@, <<t.ops[t.idx].id, success>>)]
  IN IF s # "retry" /\ t.idx < Len(t.ops)
     THEN Issue(logged, t.ops, t.idx + 1)
     ELSE [logged EXCEPT !.pc = "reload", !.error = NoError]

\* await removeOperation(op.id); return true
RemoveSucceeded(s, storageOk) ==
  /\ task[s].pc = "remove"
  /\ IF storageOk
     THEN /\ queue' = removeOperation(queue, CurrentOp(s).id)
          /\ task' = [task EXCEPT ![s] = AfterOperation(@, s, TRUE)]
          /\ UNCHANGED faultBudget
     ELSE /\ faultBudget' = faultBudget - 1
          /\ task' = [task EXCEPT ![s].pc = "fail", ![s].error = MsgQuota]
          /\ UNCHANGED queue
  /\ UNCHANGED <<isOnline, nextKey, viewVars, writes, cacheVars, auxVars, hook,
                 remoteExec>>

\* the catch of syncOperation in a syncAll without a finally block: a storage
\* error that leaves syncOperation ends the pass with isSyncing still set
MarkFailedHoldsGuard(s, storageOk) ==
  /\ task[s].pc = "fail"
  /\ IF storageOk
     THEN /\ queue' = updateOperationStatus(queue, CurrentOp(s).id, "failed", task[s].error)
          /\ task' = [task EXCEPT ![s] = AfterOperation(@, s, FALSE)]
          /\ UNCHANGED <<faultBudget, hook>>
     ELSE /\ faultBudget' = faultBudget - 1
          /\ task' = [task EXCEPT ![s] = IdleTask]
          /\ UNCHANGED <<queue, hook>>
  /\ UNCHANGED <<isOnline, nextKey, viewVars, writes, cacheVars, auxVars,
                 remoteExec>>

\* catch: await updateOperationStatus(op.id, 'failed', message); return false
MarkFailed(s, storageOk) ==
  /\ task[s].pc = "fail"
  /\ IF storageOk
     THEN /\ queue' = updateOperationStatus(queue, CurrentOp(s).id, "failed", task[s].error)
          /\ task' = [task EXCEPT ![s] = AfterOperation(@, s, FALSE)]
          /\ UNCHANGED <<faultBudget, hook>>
     ELSE \* the storage error leaves syncOperation: syncAll catches it and its
          \* finally block runs; retryOperation ends with it
          /\ faultBudget' = faultBudget - 1
          /\ task' = [task EXCEPT ![s] = IdleTask]
          /\ hook' = IF s = "retry" THEN hook
                     ELSE [hook EXCEPT ![s].isSyncing = FALSE]
          /\ UNCHANGED queue
  /\ UNCHANGED <<isOnline, nextKey, viewVars, writes, cacheVars, auxVars,
                 remoteExec>>

\* an end of the pass that sets the pending list from the snapshot of the
\* pass, less the operations replayed with success, without reading the store
FinishFromSnapshot(s, storageOk, batched) ==
  LET h == Owner(s)
      released == IF s = "retry" THEN hook[h] ELSE [hook[h] EXCEPT !.isSyncing = FALSE]
      left == SelectSeq(task[s].ops,
                        LAMBDA o : \A k \in 1..Len(task[s].returned) :
                                     task[s].returned[k] # <<o.id, TRUE>>)
      loaded == [released EXCEPT !.pendingOps = left]
  IN /\ task[s].pc = "reload"
     /\ storageOk
     /\ hook' = [hook EXCEPT ![h] = loaded]
     /\ task' = [task EXCEPT ![s] = IdleTask]
     /\ invalidated' = IF task[s].successCount > 0
                       THEN invalidated \cup {KeyCases} ELSE invalidated
     /\ UNCHANGED <<isOnline, queue, nextKey, faultBudget, qcCases, qcCase, writes,
                    cacheVars, auxVars, remoteExec>>

\* the end of a drain pass: await loadPendingOps(), the invalidation and the
\* toasts, then the finally block; the end of retryOperation likewise.
\* `batched` says whether setPendingOps and setIsSyncing(false) reach the
\* same render, which decides what the auto-sync effect sees.
Finish(s, storageOk, batched) ==
  LET h == Owner(s)
      released == IF s = "retry" THEN hook[h] ELSE [hook[h] EXCEPT !.isSyncing = FALSE]
      loaded == [released EXCEPT
                   !.pendingOps = Copies(getPendingOperations(queue, principal))]
      seen == IF s # "retry" /\ ~batched THEN hook[h] ELSE loaded
      after == IF Len(loaded.pendingOps) # Len(hook[h].pendingOps)
                  /\ AutoSync(seen, isOnline).isSyncing /\ ~seen.isSyncing
               THEN [loaded EXCEPT !.isSyncing = TRUE]
               ELSE loaded
  IN /\ task[s].pc = "reload"
     /\ IF storageOk
        THEN /\ hook' = [hook EXCEPT ![h] = after]
             /\ task' = [r \in Slots |->
                           IF r = h /\ ~released.isSyncing /\ after.isSyncing
                           THEN [IdleTask EXCEPT !.pc = "get"]
                           ELSE IF r = s THEN IdleTask ELSE task[r]]
             /\ invalidated' = IF task[s].successCount > 0
                               THEN invalidated \cup {KeyCases} ELSE invalidated
             /\ UNCHANGED faultBudget
        ELSE /\ faultBudget' = faultBudget - 1
             /\ hook' = [hook EXCEPT ![h] = released]
             /\ task' = [task EXCEPT ![s] = IdleTask]
             /\ UNCHANGED invalidated
     /\ UNCHANGED <<isOnline, queue, nextKey, qcCases, qcCase, writes, cacheVars, auxVars,
                    remoteExec>>

\* removeOp(opId) of the pending-changes dialog
removeOp(opId, storageOk) ==
  LET h == "dialog"
      queueAfter == removeOperation(queue, opId)
      loaded == [hook[h] EXCEPT
                   !.pendingOps = Copies(getPendingOperations(queueAfter, principal))]
      after == IF Len(loaded.pendingOps) # Len(hook[h].pendingOps)
               THEN AutoSync(loaded, isOnline) ELSE loaded
  IN /\ ~hook[h].isSyncing
     /\ \E i \in 1..Len(hook[h].pendingOps) : hook[h].pendingOps[i].id = opId
     /\ IF storageOk
        THEN /\ queue' = queueAfter
             /\ hook' = [hook EXCEPT ![h] = after]
             /\ task' = [task EXCEPT ![h] = StartedTask(@, hook[h], after)]
             /\ UNCHANGED faultBudget
        ELSE /\ faultBudget' = faultBudget - 1
             /\ UNCHANGED <<queue, hook, task>>
     /\ UNCHANGED <<isOnline, nextKey, viewVars, writes, cacheVars, remoteExec, auxVars>>

\* clearAll of the hook: clearAllOperations, then loadPendingOps
clearAll(storageOk) ==
  LET h == "dialog"
      queueAfter == clearAllOperations(queue, principal)
      loaded == [hook[h] EXCEPT
                   !.pendingOps = Copies(getPendingOperations(queueAfter, principal))]
      after == IF Len(loaded.pendingOps) # Len(hook[h].pendingOps)
               THEN AutoSync(loaded, isOnline) ELSE loaded
  IN /\ IF storageOk
        THEN /\ queue' = queueAfter
             /\ hook' = [hook EXCEPT ![h] = after]
             /\ task' = [task EXCEPT ![h] = StartedTask(@, hook[h], after)]
             /\ UNCHANGED faultBudget
        ELSE /\ faultBudget' = faultBudget - 1
             /\ UNCHANGED <<queue, hook, task>>
     /\ UNCHANGED <<isOnline, nextKey, viewVars, writes, cacheVars, remoteExec,
                    lastRead, probe, backend>>

(***************************************************************************)
(* The session: the confirmation of the pending-changes dialog and the     *)
(* identity with its logout (LoginButton).                                 *)
(***************************************************************************)
\* the identity after clear(): no principal
SignedOut == ""

NoCleanup == [returned |-> FALSE, success |-> FALSE, errors |-> {}]

\* a signed-in session with the confirmation closed
SignedIn ==
  [showClearConfirm |-> FALSE, identity |-> principal, isLoggingOut |-> FALSE,
   pc |-> "idle", errors |-> {}, cleanup |-> NoCleanup]

\* the button "Clear All Pending Changes" of the dialog
handleClearAll ==
  /\ Len(hook["dialog"].pendingOps) > 0
  /\ ~hook["dialog"].isSyncing
  /\ ~ui.showClearConfirm
  /\ ui' = [ui EXCEPT !.showClearConfirm = TRUE]
  /\ UNCHANGED <<isOnline, storeVars, viewVars, writes, cacheVars, engineVars,
                 lastRead, probe, backend>>

\* the button "Cancel" of the confirmation
cancelClearAll ==
  /\ ui.showClearConfirm
  /\ ui' = [ui EXCEPT !.showClearConfirm = FALSE]
  /\ UNCHANGED <<isOnline, storeVars, viewVars, writes, cacheVars, engineVars,
                 lastRead, probe, backend>>

\* the button "Clear All Changes" of the confirmation, which closes it
confirmClearAll(storageOk) ==
  /\ ui.showClearConfirm
  /\ clearAll(storageOk)
  /\ ui' = [ui EXCEPT !.showClearConfirm = FALSE]

\* clearAllCache that clears the entries of the signed-in principal only
clearAllCacheOfPrincipal(lc, cc, outcome) ==
  [list |-> [lc EXCEPT ![principal] = Undefined],
   cases |-> [id \in CaseIds |->
                IF cc[id] # Undefined /\ cc[id].principal = principal
                THEN Undefined ELSE cc[id]]]

\* clearAllCache: clear() on the caseList store, then on the cases store,
\* in two transactions; `outcome` names the request that fails, if one does
clearAllCache(lc, cc, outcome) ==
  [list |-> IF outcome = "listFailed" THEN lc ELSE [p \in Principals |-> Undefined],
   cases |-> IF outcome = "ok" THEN [id \in CaseIds |-> Undefined] ELSE cc]

CacheOutcomes == IF faultBudget > 0 THEN {"ok", "listFailed", "casesFailed"} ELSE {"ok"}

\* LoginButton.handleAuth of an authenticated user, up to the first await
handleAuth ==
  /\ ui.identity # SignedOut
  /\ ~ui.isLoggingOut
  /\ ui' = [ui EXCEPT !.isLoggingOut = TRUE, !.pc = "cache", !.errors = {},
                      !.cleanup = NoCleanup]
  /\ UNCHANGED <<isOnline, storeVars, viewVars, writes, cacheVars, engineVars,
                 lastRead, probe, backend>>

\* performLogoutCleanup: try { await clearAllCache() } catch { errors.push }
cleanupCache(outcome) ==
  LET after == clearAllCache(listCache, caseCache, outcome)
  IN /\ ui.pc = "cache"
     /\ outcome \in CacheOutcomes
     /\ listCache' = after.list
     /\ caseCache' = after.cases
     /\ faultBudget' = IF outcome = "ok" THEN faultBudget ELSE faultBudget - 1
     /\ ui' = [ui EXCEPT !.pc = "queue",
                         !.errors = IF outcome = "ok" THEN @
                                    ELSE @ \cup {"Failed to clear offline cache"}]
     /\ UNCHANGED <<isOnline, queue, nextKey, viewVars, writes, engineVars,
                    lastRead, probe, backend>>

\* performLogoutCleanup: try { await clearAllOperations(principal) } catch
\* { errors.push }, and the return of the result
cleanupQueue(storageOk) ==
  LET errors == IF storageOk THEN ui.errors
                ELSE ui.errors \cup {"Failed to clear operation queue"}
  IN /\ ui.pc = "queue"
     /\ IF storageOk
        THEN queue' = clearAllOperations(queue, ui.identity) /\ UNCHANGED faultBudget
        ELSE faultBudget' = faultBudget - 1 /\ UNCHANGED queue
     /\ ui' = [ui EXCEPT !.pc = "clear", !.errors = errors,
                         !.cleanup = [returned |-> TRUE, success |-> errors = {},
                                      errors |-> errors]]
     /\ UNCHANGED <<isOnline, nextKey, viewVars, writes, cacheVars, engineVars,
                    lastRead, probe, backend>>

\* handleAuth after the cleanup: queryClient.clear(), then in the finally
\* block clear() of the identity and setIsLoggingOut(false)
finishLogout ==
  /\ ui.pc = "clear"
  /\ qcCases' = Undefined
  /\ qcCase' = [id \in CaseIds |-> Undefined]
  /\ invalidated' = {}
  /\ lastRead' = NoRead
  /\ ui' = [ui EXCEPT !.identity = SignedOut, !.isLoggingOut = FALSE, !.pc = "idle"]
  /\ UNCHANGED <<isOnline, storeVars, writes, cacheVars, engineVars, probe, backend>>

\* the state of the hook when its component mounts
FreshHook == [isSyncing |-> FALSE, pendingOps |-> <<>>, mounting |-> TRUE]

\* the state of a hook whose read of the store at mount found no operation
\* or was rejected: setPendingOps was given nothing
SettledHook == [isSyncing |-> FALSE, pendingOps |-> <<>>, mounting |-> FALSE]

\* a page load: the component tree is mounted anew, the stores persist
PageLoad ==
  /\ \A s \in Slots : task[s].pc = "idle"
  /\ hook' = [h \in Hooks |-> FreshHook]
  /\ qcCases' = Undefined
  /\ qcCase' = [id \in CaseIds |-> Undefined]
  /\ invalidated' = {}
  /\ lastRead' = NoRead
  /\ ui' = [ui EXCEPT !.showClearConfirm = FALSE]
  /\ UNCHANGED <<isOnline, storeVars, writes, cacheVars, task, remoteExec, probe, backend>>

(***************************************************************************)
(* Specifications.  Each one is a part of the application observed from a  *)
(* page load, with the operations earlier offline writes left in the store.*)
(***************************************************************************)
\* the operation with key `id` of a queue that earlier offline writes left
Stored(id) ==
  (IF id % 2 = 1
   THEN [type |-> "toggleChecklist", caseId |-> 1, field |-> "labs"]
   ELSE [type |-> "deleteCase", caseId |-> 1])
  @@ [id |-> id] @@ BaseOperation(id)

\* a page that finds `n` operations in the store, after the list query and
\* the detail queries returned `list` and `details` and wrote them through to
\* the cache; `budget` storage requests can fail and `hooks` is the state of
\* the engine instances
LoadedViews(n, budget, hooks, list, details) ==
  /\ queue = {Stored(id) : id \in 1..n}
  /\ nextKey = n
  /\ faultBudget = budget
  /\ qcCases = list
  /\ qcCase = details
  /\ invalidated = {}
  /\ writes = <<>>
  /\ listCache = [p \in Principals |->
                    IF p = principal /\ list # Undefined
                    THEN [principal |-> p, cases |-> list.cases] ELSE Undefined]
  /\ caseCache = [id \in CaseIds |->
                    IF details[id] \notin {Undefined, Null}
                    THEN [principal |-> principal, caseData |-> details[id]]
                    ELSE Undefined]
  /\ hook = hooks
  /\ task = [s \in Slots |-> IdleTask]
  /\ remoteExec = [id \in 1..MaxOps |-> 0]
  /\ lastRead = NoRead
  /\ ui = SignedIn
  /\ probe = NoProbe
  /\ backend = RemoteStore

\* a page that finds `n` operations in the store before any query returned
Loaded(n, budget, hooks) ==
  LoadedViews(n, budget, hooks, Undefined, [id \in CaseIds |-> Undefined])

AllFresh == [h \in Hooks |-> FreshHook]

\* one instance is mounting; the read of the others returned nothing to them
OnlyFresh(h) == [x \in Hooks |-> IF x = h THEN FreshHook ELSE SettledHook]

Connectivity == GoOffline \/ GoOnline

Mounting == \E h \in Hooks, storageOk \in StorageOutcomes : loadPendingOps(h, storageOk)

Dialog ==
  \/ \E opId \in 1..MaxOps : retryOperation(opId)
  \/ \E opId \in 1..MaxOps, storageOk \in StorageOutcomes : removeOp(opId, storageOk)
  \/ handleClearAll
  \/ cancelClearAll
  \/ \E storageOk \in StorageOutcomes : confirmClearAll(storageOk)

Replay ==
  \/ \E h \in Hooks, storageOk \in StorageOutcomes : syncAll(h, storageOk)
  \/ \E s \in Slots, r \in RemoteOutcomes : RemoteReturn(s, r)
  \/ \E s \in Slots, storageOk \in StorageOutcomes :
       \/ MarkSucceeded(s, storageOk)
       \/ RemoveSucceeded(s, storageOk)
       \/ MarkFailed(s, storageOk)
  \/ \E s \in Slots, storageOk \in StorageOutcomes, batched \in BOOLEAN :
       Finish(s, storageOk, batched)

Writes ==
  \/ \E data \in Forms, r \in RemoteOutcomes, now \in Times,
        storageOk \in StorageOutcomes :
       useCreateCase(data, r, now, storageOk)
  \/ \E id \in CaseIds, data \in Forms, todos \in {Undefined, [list |-> <<Todo7>>]},
        r0 \in RemoteOutcomes, current \in {Null, [list |-> <<Todo7>>]},
        r \in RemoteOutcomes, now \in Times, storageOk \in StorageOutcomes :
       useUpdateCase(id, data, todos, r0, current, r, now, storageOk)
  \/ \E id \in CaseIds, r \in RemoteOutcomes, now \in Times,
        storageOk \in StorageOutcomes :
       useDeleteCase(id, r, now, storageOk)
  \/ \E field \in ChecklistFields, id \in CaseIds, r \in RemoteOutcomes,
        now \in Times, storageOk \in StorageOutcomes :
       useToggleChecklist(field, id, r, now, storageOk)
  \/ \E caseId \in CaseIds, r \in RemoteOutcomes, now \in Times,
        storageOk \in StorageOutcomes :
       useAddTodoItem(caseId, "Call owner", r, now, storageOk)
  \/ \E caseId \in CaseIds, todoId \in TodoIds, r \in RemoteOutcomes,
        now \in Times, storageOk \in StorageOutcomes :
       useToggleTodoComplete(caseId, todoId, r, now, storageOk)
  \/ \E caseId \in CaseIds, todoId \in TodoIds, r \in RemoteOutcomes,
        now \in Times, storageOk \in StorageOutcomes :
       useDeleteTodoItem(caseId, todoId, r, now, storageOk)

Reads ==
  \/ \E r \in RemoteOutcomes, cases \in RemoteLists, storageOk \in StorageOutcomes :
       useListCases(r, cases, storageOk)
  \/ \E id \in CaseIds, r \in RemoteOutcomes, storageOk \in StorageOutcomes :
       \E caseData \in {Null, RemoteCase(id)} : useGetCase(id, r, caseData, storageOk)

\* what the list query and a detail query can have returned
ListViews == {Undefined} \cup {ListData(cases) : cases \in RemoteLists}
DetailViews == [CaseIds -> {Undefined, Null, Remote1, Remote2}]

\* the write path: the mutations and the connectivity events, over the views
\* the queries loaded
WriteInit ==
  /\ isOnline \in BOOLEAN
  /\ \E n \in 0..(MaxOps - 1), list \in ListViews, details \in DetailViews :
       /\ \A id \in CaseIds : details[id] \in {Undefined, Null, RemoteCase(id)}
       /\ LoadedViews(n, MaxStorageFaults, AllFresh, list, details)

WriteNext == Writes \/ Connectivity

\* the read path: the two queries and the connectivity events
ReadInit == isOnline \in BOOLEAN /\ Loaded(0, MaxStorageFaults, AllFresh)

ReadNext == Reads \/ Connectivity

ReadSpec == ReadInit /\ [][ReadNext]_vars

WriteSpec == WriteInit /\ [][WriteNext]_vars

\* the drain passes of the three instances over a stored queue
DrainInit ==
  /\ isOnline \in BOOLEAN
  /\ \E n \in 1..MaxOps : Loaded(n, 0, AllFresh)

DrainNext == Connectivity \/ Mounting \/ SyncNow \/ Replay

DrainSpec == DrainInit /\ [][DrainNext]_vars

\* one instance that drains: the listener or the indicator, with storage
\* requests that fail
InstanceInit ==
  /\ isOnline \in BOOLEAN
  /\ \E n \in 1..MaxOps, h \in Hooks \ {"dialog"} :
       Loaded(n, MaxStorageFaults, OnlyFresh(h))

InstanceNext == Connectivity \/ Mounting \/ SyncNow \/ Replay

InstanceSpec == InstanceInit /\ [][InstanceNext]_vars

\* the steps of the replay of one slot: each is the return of a storage
\* request or of the remote call the task awaits
ReplayOf(s) ==
  \/ s \in Hooks /\ \E storageOk \in StorageOutcomes : syncAll(s, storageOk)
  \/ \E r \in RemoteOutcomes : RemoteReturn(s, r)
  \/ \E storageOk \in StorageOutcomes :
       \/ MarkSucceeded(s, storageOk)
       \/ RemoveSucceeded(s, storageOk)
       \/ MarkFailed(s, storageOk)
  \/ \E storageOk \in StorageOutcomes, batched \in BOOLEAN : Finish(s, storageOk, batched)

\* every remote call and every storage request of a replay returns in the end
FairInstanceSpec == InstanceSpec /\ \A s \in Slots : WF_vars(ReplayOf(s))

\* the instance of the pending-changes dialog with its buttons, and storage
\* requests that fail
DialogInit ==
  /\ isOnline \in BOOLEAN
  /\ \E n \in 1..MaxOps : Loaded(n, MaxStorageFaults, OnlyFresh("dialog"))

DialogNext == Connectivity \/ Mounting \/ Dialog \/ Replay

DialogSpec == DialogInit /\ [][DialogNext]_vars

\* a session that starts with an empty store and enqueues while it runs
ReconnectInit == isOnline \in BOOLEAN /\ Loaded(0, 0, AllFresh)

QueueingWrites ==
  \E r \in RemoteOutcomes, storageOk \in StorageOutcomes :
    useToggleChecklist("labs", 1, r, 1, storageOk)

ReconnectNext ==
  Connectivity \/ Mounting \/ QueueingWrites \/ SyncNow \/ Replay \/ PageLoad

ReconnectSpec == ReconnectInit /\ [][ReconnectNext]_vars

\* words an error text is made of
Words ==
  {<<>>,
   <<"n", "e", "t", "w", "o", "r", "k">>,
   <<"N", "e", "t", "w", "o", "r", "k">>,
   <<"f", "e", "t", "c", "h">>,
   <<"F", "E", "T", "C", "H">>,
   <<"o", "f", "f", "l", "i", "n", "e">>,
   <<"O", "f", "f", "l", "i", "n", "e">>,
   <<"N", "e", "t", "w", "o", "r", "k", "E", "r", "r", "o", "r">>,
   <<"E", "r", "r", "o", "r">>,
   <<"t", "i", "m", "e", "o", "u", "t">>}

Texts == {a \o <<" ">> \o b : a \in Words, b \in Words}

\* the values a catch block can hand to isNetworkError: objects with a
\* message and a string form, and the missing values
ErrorValues ==
  {ErrorValue(message, string) :
     message \in Texts \cup {<<>>},
     string \in {<<"[", "o", "b", "j", "e", "c", "t", "]">>,
                 <<"T", "y", "p", "e", "E", "r", "r", "o", "r", ":", " ",
                   "F", "a", "i", "l", "e", "d", " ", "t", "o", " ", "f", "e", "t", "c", "h">>}}
  \cup {Null, Undefined}

\* a call of isNetworkError
Classify(error) ==
  /\ probe' = Classified(error, isNetworkError(error))
  /\ UNCHANGED <<isOnline, storeVars, viewVars, writes, cacheVars, engineVars,
                 lastRead, ui, backend>>

\* the classification of errors
ClassifyInit == isOnline = TRUE /\ Loaded(0, 0, AllFresh)

ClassifyNext == \E error \in ErrorValues : Classify(error)

ClassifySpec == ClassifyInit /\ [][ClassifyNext]_vars

\* the operation with key `id` as principal `p` left it, with status `status`
StoredBy(id, p, status) == [Stored(id) EXCEPT !.principal = p, !.status = status]

\* the stores as earlier sessions of the two principals can have left them
StoredQueues ==
  UNION {{{StoredBy(id, owner[id], status[id]) : id \in 1..n} :
            owner \in [1..n -> Principals],
            status \in [1..n -> {"pending", "failed", "succeeded"}]} :
         n \in 0..MaxOps}

StoredListCaches ==
  [Principals -> {Undefined, [cases |-> <<Remote1, Remote2>>]}]

\* per case id, the principal whose detail entry the cases store holds
StoredCaseCaches == [CaseIds -> {"none"} \cup Principals]

\* a signed-in page that is offline, with the stores earlier sessions left
LogoutInit ==
  /\ isOnline = FALSE
  /\ Loaded(0, 0, OnlyFresh("dialog"))
     \/ \E q \in StoredQueues, lc \in StoredListCaches, cc \in StoredCaseCaches,
           budget \in 0..MaxStorageFaults :
          /\ queue = q
          /\ nextKey = Cardinality(q)
          /\ faultBudget = budget
          /\ listCache = [p \in Principals |->
                            IF lc[p] = Undefined THEN Undefined
                            ELSE [principal |-> p, cases |-> lc[p].cases]]
          /\ caseCache = [id \in CaseIds |->
                            IF cc[id] = "none" THEN Undefined
                            ELSE [principal |-> cc[id], caseData |-> RemoteCase(id)]]
          /\ qcCases = Undefined
          /\ qcCase = [id \in CaseIds |-> Undefined]
          /\ invalidated = {}
          /\ writes = <<>>
          /\ hook = OnlyFresh("dialog")
          /\ task = [s \in Slots |-> IdleTask]
          /\ remoteExec = [id \in 1..MaxOps |-> 0]
          /\ lastRead = NoRead
          /\ ui = SignedIn
          /\ probe = NoProbe
          /\ backend = RemoteStore

\* the confirmation of the dialog and the logout, while signed in
Clearing ==
  /\ ui.identity # SignedOut
  /\ \/ handleClearAll
     \/ cancelClearAll
     \/ \E storageOk \in StorageOutcomes : confirmClearAll(storageOk)

Logout ==
  \/ handleAuth
  \/ \E outcome \in CacheOutcomes : cleanupCache(outcome)
  \/ \E storageOk \in StorageOutcomes : cleanupQueue(storageOk)
  \/ finishLogout

LogoutNext == (ui.identity # SignedOut /\ Mounting) \/ Clearing \/ Logout

LogoutSpec == LogoutInit /\ [][LogoutNext]_vars

\* what a session of principal `p` stores: its operations, its list and its
\* records carry data of `p` (the same case ids for both principals)
OperationOf(p) ==
  [type |-> "addTodo", caseId |-> 1, description |-> p, principal |-> p,
   createdAt |-> 1, status |-> "pending", lastError |-> NoError]
CaseBy(id, p) == CaseOf(id, IF p = principal THEN FormP ELSE FormQ, <<>>)
ListBy(p) == <<CaseBy(1, p), CaseBy(2, p)>>

\* enqueueOperation called by a session of `p`
Enqueues(p) ==
  /\ nextKey < MaxOps
  /\ queue' = enqueueOperation(queue, nextKey, OperationOf(p))
  /\ nextKey' = nextKey + 1
  /\ UNCHANGED <<isOnline, faultBudget, viewVars, writes, cacheVars, engineVars, auxVars>>

\* updateOperationStatus called by a replay
UpdatesStatus(id, status) ==
  /\ \E o \in queue : o.id = id /\ o.status # status
  /\ queue' = updateOperationStatus(queue, id, status,
                                    IF status = "failed" THEN MsgFailedToFetch ELSE NoError)
  /\ UNCHANGED <<isOnline, nextKey, faultBudget, viewVars, writes, cacheVars,
                 engineVars, auxVars>>

\* clearAllOperations(p)
Clears(p) ==
  /\ queue' = clearAllOperations(queue, p)
  /\ UNCHANGED <<isOnline, nextKey, faultBudget, viewVars, writes, cacheVars,
                 engineVars, auxVars>>

\* saveCaseListCache(p, cases)
SavesList(p, cases) ==
  /\ listCache' = saveCaseListCache(listCache, p, cases)
  /\ UNCHANGED <<isOnline, storeVars, viewVars, writes, caseCache, engineVars, auxVars>>

\* saveCaseCache(p, caseData)
SavesDetail(p, id) ==
  /\ caseCache' = saveCaseCache(caseCache, p, CaseBy(id, p))
  /\ UNCHANGED <<isOnline, storeVars, viewVars, writes, listCache, engineVars, auxVars>>

\* clearCacheForPrincipal(p)
ClearsCache(p) ==
  LET after == clearCacheForPrincipal(listCache, caseCache, p)
  IN /\ listCache' = after.list
     /\ caseCache' = after.cases
     /\ UNCHANGED <<isOnline, storeVars, viewVars, writes, engineVars, auxVars>>

\* the calls of the two stores, made by the sessions of two principals
ScopeInit == isOnline = TRUE /\ Loaded(0, 0, AllFresh)

ScopeNext ==
  \/ \E p \in Principals : Enqueues(p)
  \/ \E id \in 1..MaxOps, status \in {"failed", "succeeded"} : UpdatesStatus(id, status)
  \/ \E p \in Principals : Clears(p)
  \/ \E p \in Principals : \E cases \in {<<>>, ListBy(p)} : SavesList(p, cases)
  \/ \E p \in Principals, id \in CaseIds : SavesDetail(p, id)
  \/ \E p \in Principals : ClearsCache(p)

ScopeSpec == ScopeInit /\ [][ScopeNext]_vars

\* a session that is offline with one stored operation, the list and the
\* detail of case 1 on screen; it adds a to-do or toggles a checklist item
\* of case 1, reads, reconnects and drains
ConvergeInit ==
  /\ isOnline = FALSE
  /\ LoadedViews(1, 0, OnlyFresh("listener"), ListData(<<Remote1, Remote2>>),
                 [id \in CaseIds |-> IF id = 1 THEN Remote1 ELSE Undefined])

ScreenWrites ==
  \E r \in RemoteOutcomes, now \in Times :
    \/ useAddTodoItem(1, "Call owner", r, now, TRUE)
    \/ useToggleChecklist("labs", 1, r, now, TRUE)

ScreenReads ==
  \/ \E r \in RemoteOutcomes, cases \in RemoteLists : useListCases(r, cases, TRUE)
  \/ \E r \in RemoteOutcomes : useGetCase(1, r, Remote1, TRUE)

ConvergeNext == Connectivity \/ Mounting \/ ScreenWrites \/ ScreenReads \/ Replay

ConvergeSpec == ConvergeInit /\ [][ConvergeNext]_vars

\* the to-do an offline useAddTodoItem shows: its id is BigInt(Date.now())
OptimisticTodo(now) == [id |-> now, description |-> "Call owner", complete |-> FALSE]

\* a session that is offline with the detail of case 1 on screen, after
\* useAddTodoItem queued a to-do for case 1 at time `now` and added it to
\* the detail with its temporary id; the log of mutations starts here
TempIdInit ==
  /\ isOnline = FALSE
  /\ \E now \in Times :
       /\ queue = enqueueOperation({}, 0,
                    [type |-> "addTodo", caseId |-> 1, description |-> "Call owner",
                     tempId |-> TempId(now)] @@ BaseOperation(now))
       /\ qcCase = [id \in CaseIds |->
                      IF id = 1
                      THEN [Remote1 EXCEPT !.todos = Append(@, OptimisticTodo(now))]
                      ELSE Undefined]
  /\ nextKey = 1
  /\ faultBudget = 0
  /\ qcCases = ListData(<<Remote1, Remote2>>)
  /\ invalidated = {KeyCases, KeyCase(1)}
  /\ writes = <<>>
  /\ listCache = [p \in Principals |->
                    IF p = principal
                    THEN [principal |-> p, cases |-> <<Remote1, Remote2>>]
                    ELSE Undefined]
  /\ caseCache = [id \in CaseIds |->
                    IF id = 1 THEN [principal |-> principal, caseData |-> Remote1]
                    ELSE Undefined]
  /\ hook = OnlyFresh("listener")
  /\ task = [s \in Slots |-> IdleTask]
  /\ remoteExec = [id \in 1..MaxOps |-> 0]
  /\ lastRead = NoRead
  /\ ui = SignedIn
  /\ probe = NoProbe
  /\ backend = RemoteStore

\* the ids of the to-dos the detail of a case shows
TodosOnScreen(caseId) ==
  IF qcCase[caseId] \in {Undefined, Null} THEN {}
  ELSE {qcCase[caseId].todos[i].id : i \in 1..Len(qcCase[caseId].todos)}

\* the user, offline, ticks or deletes a to-do the detail of case 1 shows
DependentWrites ==
  /\ ~isOnline
  /\ \E todoId \in TodosOnScreen(1), r \in RemoteOutcomes, now \in Times :
       \/ useToggleTodoComplete(1, todoId, r, now, TRUE)
       \/ useDeleteTodoItem(1, todoId, r, now, TRUE)

\* the replay against the actor
ActorReplay ==
  \/ \E h \in Hooks : syncAll(h, TRUE)
  \/ \E s \in Slots : RemoteReplies(s)
  \/ \E s \in Slots :
       \/ MarkSucceeded(s, TRUE)
       \/ RemoveSucceeded(s, TRUE)
       \/ MarkFailed(s, TRUE)
  \/ \E s \in Slots, batched \in BOOLEAN : Finish(s, TRUE, batched)

TempIdNext == Connectivity \/ Mounting \/ DependentWrites \/ ActorReplay

TempIdSpec == TempIdInit /\ [][TempIdNext]_vars

(***************************************************************************)
(* The actor alone: calls of createCase, importCases, addTodoItem,         *)
(* updateCase, deleteCase, toggleTodoComplete and deleteTodoItem on a      *)
(* freshly deployed actor.  The client does not move.                      *)
(***************************************************************************)
\* a record of an export file: case 1 with the to-do that had id 1
Exported1 == CaseOf(1, FormP, <<[id |-> 1, description |-> "Labs Complete",
                                 complete |-> FALSE]>>)
\* a record of an export file: case 2 without to-dos
Exported2 == CaseOf(2, FormQ, <<>>)

\* the arrays importCases is called with
ImportArrays == {<<Exported1>>, <<Exported2>>, <<Exported1, Exported2>>}

\* the to-do lists updateCase is called with, besides the one the case has
TodoLists == {<<>>, <<[id |-> 2, description |-> "pDVM Notified", complete |-> TRUE]>>}

BackendInit ==
  /\ isOnline = TRUE
  /\ queue = {}
  /\ nextKey = 0
  /\ faultBudget = 0
  /\ qcCases = Undefined
  /\ qcCase = [id \in CaseIds |-> Undefined]
  /\ invalidated = {}
  /\ writes = <<>>
  /\ listCache = [p \in Principals |-> Undefined]
  /\ caseCache = [id \in CaseIds |-> Undefined]
  /\ hook = AllFresh
  /\ task = [s \in Slots |-> IdleTask]
  /\ remoteExec = [id \in 1..MaxOps |-> 0]
  /\ lastRead = NoRead
  /\ ui = SignedIn
  /\ probe = NoProbe
  /\ backend = EmptyActor

\* the actor replies to a call and keeps the state the call left
Replies(reply) ==
  /\ reply.error = NoError
  /\ backend' = reply.state
  /\ UNCHANGED <<isOnline, storeVars, viewVars, writes, cacheVars, engineVars,
                 lastRead, ui, probe>>

\* the ids of the cases of the actor
StoredIds(b) == {c.id : c \in b.cases}

CreatesCase ==
  \E data \in Forms :
    /\ backend.nextId < MaxNextId
    /\ backend.nextToDoId < MaxNextToDoId
    /\ Replies(createCase(backend, data, getCheckedTodoDescriptions(data), 1))

ImportsCases ==
  \E casesArray \in ImportArrays :
    /\ \A i \in 1..Len(casesArray) : casesArray[i].id <= MaxNextId
    /\ Replies(importCases(backend, casesArray))

AddsTodo ==
  \E caseId \in CaseIds :
    /\ containsKey(backend.cases, caseId)
    /\ backend.nextToDoId < MaxNextToDoId
    /\ Replies(addTodoItem(backend, caseId, "Call owner"))

UpdatesCase ==
  \E id \in CaseIds :
    /\ containsKey(backend.cases, id)
    /\ \E todos \in TodoLists \cup {casesGet(backend.cases, id).todos} :
         Replies(updateCase(backend, id, FormQ, todos))

DeletesCase ==
  \E id \in CaseIds :
    /\ containsKey(backend.cases, id)
    /\ Replies(deleteCase(backend, id))

\* the ids of the to-dos of a case
TodoIdsOf(caseRecord) == {caseRecord.todos[i].id : i \in 1..Len(caseRecord.todos)}

TogglesTodo ==
  \E id \in CaseIds :
    /\ containsKey(backend.cases, id)
    /\ \E todoId \in TodoIdsOf(casesGet(backend.cases, id)) :
         Replies(toggleTodoComplete(backend, id, todoId))

DeletesTodo ==
  \E id \in CaseIds :
    /\ containsKey(backend.cases, id)
    /\ \E todoId \in TodoIdsOf(casesGet(backend.cases, id)) :
         Replies(deleteTodoItem(backend, id, todoId))

BackendNext ==
  \/ CreatesCase
  \/ ImportsCases
  \/ AddsTodo
  \/ UpdatesCase
  \/ DeletesCase
  \/ TogglesTodo
  \/ DeletesTodo

BackendSpec == BackendInit /\ [][BackendNext]_vars

\* a session that is offline with one stored operation and the detail of
\* case 1 on screen, whose listener drains after the reconnect while the
\* user keeps writing; storage requests of the engine can fail
OverlapInit ==
  /\ isOnline = FALSE
  /\ LoadedViews(1, MaxStorageFaults, OnlyFresh("listener"), ListData(<<Remote1, Remote2>>),
                 [id \in CaseIds |-> IF id = 1 THEN Remote1 ELSE Undefined])

OverlapNext == Connectivity \/ Mounting \/ ScreenWrites \/ Replay

OverlapSpec == OverlapInit /\ [][OverlapNext]_vars

(***************************************************************************)
(* Properties of the replay.                                               *)
(***************************************************************************)
\* C1: in every drain pass the remote calls are issued in the order in which
\* the operations were enqueued (ascending key, oldest first), the call of an
\* operation only after the replay of the one before it has returned, so that
\* at most one call of the pass is in flight.
C1_FifoReplay ==
  \A h \in Hooks :
    LET t == task[h]
    IN /\ \A i \in 1..(Len(t.ops) - 1) : t.ops[i].id < t.ops[i + 1].id
       /\ t.issued = SubSeq(Ids(t.ops), 1, Len(t.issued))
       /\ \A i \in 1..Len(t.returned) : t.returned[i][1] = t.issued[i]
       /\ Len(t.issued) - Len(t.returned) \in {0, 1}
       /\ t.pc = "call" => Len(t.returned) = Len(t.issued) - 1

\* a pass has issued the call of its second operation after the first returned
C1_SecondCallInFlight ==
  \E h \in Hooks :
    /\ task[h].pc = "call"
    /\ Len(task[h].issued) = 2
    /\ Len(task[h].returned) = 1

\* C2: at most one drain pass (isSyncing set by syncAll and not yet cleared)
\* is in flight in the application at any time, whichever component started it.
C2_OnePassInFlight == Cardinality({h \in Hooks : hook[h].isSyncing}) <= 1

\* C3: the remote store executes the call of an enqueued operation at most
\* once, over all drain passes and retries, also when a storage request of
\* the replay fails after the remote call returned.
C3_ExecutedAtMostOnce == \A id \in 1..MaxOps : remoteExec[id] <= 1

C9_FailureKeepsOperation ==
  [][\A s \in Slots :
       (/\ task[s].pc = "fail"
        /\ task'[s] # task[s]
        /\ task[s].error \in RemoteErrors
        /\ faultBudget' = faultBudget)
       => LET pending == getPendingOperations(queue', principal)
          IN /\ \E i \in 1..Len(pending) :
                  /\ pending[i].id = CurrentOp(s).id
                  /\ pending[i].status = "failed"
                  /\ pending[i].lastError = task[s].error
             /\ Len(pending) = Len(getPendingOperations(queue, principal))
    ]_vars

\* C10 (as stated): every drain pass issues the remote call of every operation
\* of its snapshot before it ends.
C10_EveryPassIssuesAll ==
  [][\A h \in Hooks :
       (hook[h].isSyncing /\ ~hook'[h].isSyncing /\ task[h].pc # "get")
       => task[h].issued = Ids(task[h].ops)
    ]_vars

\* C10 (amended): a drain pass that reaches its report, which every pass does
\* whose storage requests complete, has issued the remote call of every
\* operation of its snapshot exactly once, in whatever way the earlier ones
\* ended, and its success count plus its failure count is the size of the
\* snapshot.
C10_PassReportsAll ==
  \A h \in Hooks :
    LET t == task[h]
    IN t.pc = "reload" =>
         /\ t.issued = Ids(t.ops)
         /\ \A i \in 1..Len(t.ops) : \A j \in 1..Len(t.ops) :
              t.ops[i].id = t.ops[j].id => i = j
         /\ Len(t.returned) = Len(t.ops)
         /\ t.successCount + t.failCount = Len(t.ops)
         /\ t.successCount = Cardinality({i \in 1..Len(t.returned) : t.returned[i][2]})

\* a pass reports after its first operation failed and its second succeeded
C10_FailedThenSucceeded ==
  \E h \in Hooks :
    /\ task[h].pc = "reload"
    /\ Len(task[h].ops) = 2
    /\ task[h].returned[1][2] = FALSE
    /\ task[h].returned[2][2] = TRUE

(***************************************************************************)
(* Properties of the write path.                                           *)
(***************************************************************************)
\* C5: a mutation of any of the seven types whose remote call fails with a
\* network-classified error enqueues exactly one operation of its type, with
\* status pending and the arguments of the mutation, and returns a placeholder
\* instead of raising an error.
C5_NetworkFailureRecovered ==
  [][(Len(writes') = Len(writes) + 1 /\ faultBudget' = faultBudget) =>
       LET w == writes'[Len(writes')]
           a == w.args
           Matches(o) ==
             CASE w.type = "createCase" -> o.data = a.data
               [] w.type = "updateCase" ->
                    /\ o.caseId = a.id /\ o.data = a.data
                    /\ a.todos # Undefined => o.todos = a.todos.list
               [] w.type = "deleteCase" -> o.caseId = a.id
               [] w.type = "toggleChecklist" -> o.caseId = a.id /\ o.field = a.field
               [] w.type = "addTodo" ->
                    o.caseId = a.caseId /\ o.description = a.description
               [] w.type = "toggleTodo" -> o.caseId = a.caseId /\ o.todoId = a.todoId
               [] w.type = "deleteTodo" -> o.caseId = a.caseId /\ o.todoId = a.todoId
       IN isNetworkError(ErrorOf(w.failure)) =>
            /\ w.outcome = "returned"
            /\ \E o \in queue' :
                 /\ o \notin queue
                 /\ queue' = queue \cup {o}
                 /\ o.type = w.type
                 /\ o.status = "pending"
                 /\ Matches(o)
    ]_vars

\* C6: a mutation whose remote call fails with an error that isNetworkError
\* does not classify as a network error rejects with that error, enqueues
\* nothing and leaves the query data of the list and of the details as it was.
C6_ApplicationFailurePropagated ==
  [][Len(writes') = Len(writes) + 1 =>
       LET w == writes'[Len(writes')]
       IN (w.failure # NoError /\ ~isNetworkError(ErrorOf(w.failure))) =>
            /\ w.outcome = "threw"
            /\ w.value = w.failure
            /\ queue' = queue
            /\ nextKey' = nextKey
            /\ qcCases' = qcCases
            /\ qcCase' = qcCase
            /\ invalidated' = invalidated
    ]_vars

\* a mutation was rejected by the remote store while the list and a detail
\* were loaded and an operation was waiting in the store
C6_RejectedWithViewsLoaded ==
  /\ Len(writes) > 0
  /\ writes[Len(writes)].failure \in AppErrors
  /\ writes[Len(writes)].outcome = "threw"
  /\ qcCases = ListData(<<Remote1, Remote2>>)
  /\ qcCase[1] = Remote1
  /\ queue # {}

\* C7: a create-record mutation run while offline attempts no remote call,
\* leaves exactly one more createCase operation with status pending in the
\* store, and leaves in the list a record with a temporary id whose fields
\* are those of the payload.
C7_OfflineCreate ==
  [][(/\ Len(writes') = Len(writes) + 1
      /\ writes'[Len(writes')].type = "createCase"
      /\ ~isOnline
      /\ faultBudget' = faultBudget) =>
       LET w == writes'[Len(writes')]
           P == w.args.data
       IN /\ w.calls = <<>>
          /\ \E o \in queue' :
               /\ o \notin queue
               /\ queue' = queue \cup {o}
               /\ o.type = "createCase"
               /\ o.status = "pending"
               /\ o.data = P
          /\ qcCases' # Undefined
          /\ \E i \in 1..Len(qcCases'.cases) :
               /\ qcCases'.cases[i].id \notin CaseIds
               /\ qcCases'.cases[i].data =
                    [P EXCEPT !.arrivalDate =
                       IF @ # 0 THEN @ ELSE qcCases'.cases[i].data.arrivalDate]
    ]_vars

(***************************************************************************)
(* Properties of the reconnection.                                         *)
(***************************************************************************)
\* C8: when connectivity changes from offline to online while the store holds
\* a pending or failed operation of the principal, whenever it was enqueued,
\* a drain pass is in flight right after, without any user action.
C8_ReplayOnReconnect ==
  [][(/\ ~isOnline
      /\ isOnline'
      /\ \A h \in Hooks : ~hook[h].mounting
      /\ getPendingOperations(queue, principal) # <<>>)
     => \E h \in Hooks : hook'[h].isSyncing
    ]_vars

(***************************************************************************)
(* The read path.                                                          *)
(***************************************************************************)
\* the entries the cache holds for the signed-in principal
CachedList ==
  IF listCache[principal] = Undefined THEN Null
  ELSE ListData(listCache[principal].cases)
CachedCase(id) ==
  IF caseCache[id] # Undefined /\ caseCache[id].principal = principal
  THEN caseCache[id].caseData ELSE Null

\* a run of queryFn whose remote call was rejected with `r` ended as the
\* fallback rule says, given the entry `cached` of the cache
FallbackRule(r, cached) ==
  IF isNetworkError(ErrorOf(r)) /\ cached # Null
  THEN lastRead'.error = NoError /\ lastRead'.data = cached
  ELSE lastRead'.error = r /\ lastRead'.data = Undefined

\* C13 as stated: a list or detail read whose remote call fails with a
\* network-classified error returns the data cached for the principal when an
\* entry exists and otherwise propagates the original error; a read whose
\* remote call fails with another error propagates that error and returns no
\* cached data.
C13_CacheFallbackOnRead ==
  [][/\ \A r \in RemoteErrors, cases \in RemoteLists, storageOk \in BOOLEAN :
          useListCases(r, cases, storageOk) => FallbackRule(r, CachedList)
     /\ \A id \in CaseIds, r \in RemoteErrors, storageOk \in BOOLEAN :
          \A caseData \in {Null, RemoteCase(id)} :
            useGetCase(id, r, caseData, storageOk) => FallbackRule(r, CachedCase(id))]_vars

\* C13 amended: the rule holds for every read whose read of the cache
\* completes; when the read of the cache is rejected, the read propagates
\* that rejection and returns no data.
C13_CacheFallbackWhenCacheAnswers ==
  [][/\ \A r \in RemoteErrors, cases \in RemoteLists, storageOk \in BOOLEAN :
          useListCases(r, cases, storageOk) =>
            IF storageOk THEN FallbackRule(r, CachedList) /\ (lastRead'.data = Undefined => qcCases' = qcCases)
            ELSE lastRead'.error = MsgQuota /\ lastRead'.data = Undefined /\ qcCases' = qcCases
     /\ \A id \in CaseIds, r \in RemoteErrors, storageOk \in BOOLEAN :
          \A caseData \in {Null, RemoteCase(id)} :
            useGetCase(id, r, caseData, storageOk) =>
              IF storageOk THEN FallbackRule(r, CachedCase(id)) /\ (lastRead'.data = Undefined => qcCase' = qcCase)
              ELSE lastRead'.error = MsgQuota /\ lastRead'.data = Undefined /\ qcCase' = qcCase]_vars

\* the list read fell back to the two cached records
C13_ListServedFromCache ==
  /\ lastRead.key = KeyCases
  /\ lastRead.source = "cache"
  /\ lastRead.data = ListData(<<Remote1, Remote2>>)
  /\ qcCases = ListData(<<Remote1, Remote2>>)

(***************************************************************************)
(* The classification of errors.                                           *)
(***************************************************************************)
\* the text of an error contains one of the four substrings, case-sensitively
TextIsNetwork(text) ==
  \E pattern \in {<<"n", "e", "t", "w", "o", "r", "k">>,
                   <<"f", "e", "t", "c", "h">>,
                   <<"o", "f", "f", "l", "i", "n", "e">>,
                   <<"N", "e", "t", "w", "o", "r", "k", "E", "r", "r", "o", "r">>} :
    \E i \in 1..Len(text) : \E j \in i..Len(text) : SubSeq(text, i, j) = pattern

\* C18: isNetworkError returns false for a missing error and otherwise true
\* exactly when the message of the error, or its string form when it has no
\* message, contains 'network', 'fetch', 'offline' or 'NetworkError'; errors
\* with the same message text get the same classification.
C18_ClassifiedByMessageText ==
  /\ probe.result =
       IF probe.error \in {Null, Undefined} THEN FALSE
       ELSE TextIsNetwork(IF probe.error.message # <<>> THEN probe.error.message
                          ELSE probe.error.string)
  /\ \A other \in ErrorValues \ {Null, Undefined} :
       (/\ probe.error \notin {Null, Undefined}
        /\ MessageText(other) = MessageText(probe.error))
       => isNetworkError(other) = probe.result

\* an error without a message was classified by its string form
C18_ClassifiedByStringForm ==
  /\ probe.error \notin {Null, Undefined}
  /\ probe.error.message = <<>>
  /\ probe.result

(***************************************************************************)
(* The replayed call against the attempted call.                           *)
(***************************************************************************)
\* C19: for every operation variant, the remote call syncOperation issues
\* for a queued operation has the method and the arguments of the remote
\* call the mutation attempted when it queued the operation; a replayed
\* createCase carries the to-do descriptions of the checked checklist items
\* of its payload.
C19_ReplayReissuesAttemptedCall ==
  [][(/\ Len(writes') = Len(writes) + 1
      /\ writes'[Len(writes')].enqueued # <<>>) =>
       LET w == writes'[Len(writes')]
       IN \A o \in queue' \ queue :
            /\ w.calls # <<>>
            /\ ReplayCall(o) = w.calls[Len(w.calls)]]_vars

(***************************************************************************)
(* The guards of syncAll.                                                  *)
(***************************************************************************)
\* C20: a call of syncAll made while a drain pass is in flight, or while
\* the connectivity monitor reports offline, is a no-op: a pass starts
\* (isSyncing of an instance goes from false to true, the only way to a
\* remote call, a status change or a removal of a pass) only when the
\* application is online and no drain pass is in flight.
C20_DrainGuards ==
  [][\A h \in Hooks :
       (~hook[h].isSyncing /\ hook'[h].isSyncing) =>
         /\ isOnline'
         /\ \A g \in Hooks : ~hook[g].isSyncing]_vars

(***************************************************************************)
(* The retry of one operation.                                             *)
(***************************************************************************)
\* C16: retryOperation(id) issues exactly one remote call, the one of the
\* operation with that id; when the call succeeded the operation is removed
\* from the store, when it was rejected the operation is marked failed with
\* the message of the error and stays in the store; no step of the retry
\* changes the status, the payload or the presence of another operation.
C16_SingleOperationRetry ==
  [][LET t == task["retry"]
     IN (t.pc # "idle") =>
          LET id == t.ops[1].id
          IN /\ Len(t.ops) = 1
             /\ t.issued = <<id>>
             /\ (task'["retry"] # t) =>
                  /\ \A o \in queue \cup queue' :
                       o.id # id => (o \in queue /\ o \in queue')
                  /\ (t.pc \in {"remove", "fail"}
                        /\ task'["retry"].pc \in {"reload", "idle"}) =>
                       IF t.remote = "resolved"
                       THEN \A o \in queue' : o.id # id
                       ELSE \E o \in queue' :
                              /\ o.id = id
                              /\ o.status = "failed"
                              /\ o.lastError = t.error]_vars

(***************************************************************************)
(* Clearing the queue and the logout.                                      *)
(***************************************************************************)
\* C14: every execution of clearAllOperations that removes the pending and
\* failed operations of the principal follows an explicit confirmation of
\* the user (the confirmation is open when the clearing starts); no path
\* discards the unsynced operations of a principal in bulk without it.
C14_ClearingRequiresConfirmation ==
  [][(/\ \/ \E storageOk \in BOOLEAN : confirmClearAll(storageOk)
         \/ \E storageOk \in BOOLEAN : cleanupQueue(storageOk)
      /\ getPendingOperations(queue, principal) # <<>>
      /\ getPendingOperations(queue', principal) = <<>>)
     => ui.showClearConfirm]_vars

C11_PrincipalScoping ==
  \A B \in Principals :
    /\ LET operations == getPendingOperations(queue, B)
       IN \A i \in 1..Len(operations) :
            operations[i].principal = B /\ operations[i].description = B
    /\ getCaseListCache(listCache, B) \in {Null, ListData(<<>>), ListData(ListBy(B))}
    /\ \A id \in CaseIds : getCaseCache(caseCache, B, id) \in {Null, CaseBy(id, B)}

\* the store holds an operation, a list and the record of case 1 of one
\* principal, and the queries of the other principal return nothing
C11_OtherPrincipalSeesNothing ==
  \E A \in Principals, B \in Principals :
    /\ A # B
    /\ getPendingOperations(queue, A) # <<>>
    /\ getCaseListCache(listCache, A) = ListData(ListBy(A))
    /\ getCaseCache(caseCache, A, 1) = CaseBy(1, A)
    /\ getPendingOperations(queue, B) = <<>>
    /\ getCaseListCache(listCache, B) = Null
    /\ getCaseCache(caseCache, B, 1) = Null

TouchedKeys(w) ==
  IF w.type \in {"createCase", "updateCase", "deleteCase"} THEN {KeyCases}
  ELSE IF w.type = "toggleChecklist" THEN {KeyCase(w.args.id)}
  ELSE {KeyCase(w.args.caseId)}

\* the next read of the query goes to the remote store: the query is
\* invalidated or holds no data
RefetchesNext(key) ==
  \/ key \in invalidated'
  \/ key = KeyCases /\ qcCases' = Undefined
  \/ \E id \in CaseIds : key = KeyCase(id) /\ qcCase'[id] = Undefined

\* C15: when a drain pass that replayed an operation of this session with
\* success has finished, the next read of every list and detail view the
\* optimistic update of that operation touched is served from the remote
\* store, so that the view shows the authoritative state and no temporary id.
C15_ConvergenceAfterReplay ==
  [][\A s \in Hooks :
       (task[s].pc = "reload" /\ task'[s].pc # "reload") =>
         \A i \in 1..Len(writes) :
           \A j \in 1..Len(writes[i].enqueued) :
             (\E k \in 1..Len(task[s].returned) :
                task[s].returned[k] = <<writes[i].enqueued[j], TRUE>>)
             => \A key \in TouchedKeys(writes[i]) : RefetchesNext(key)]_vars

(***************************************************************************)
(* Termination of the drain pass.                                          *)
(***************************************************************************)
\* C21: provided every remote call and every storage request returns, a
\* drain pass that set isSyncing releases it: whenever no pass of an instance
\* is in flight its isSyncing is false, an instance whose isSyncing is true
\* gets it back to false, and a pass that issued a call comes to its end
\* (its task is given up, or replaced by that of the pass the auto-sync
\* effect starts after it), whether the snapshot was empty, replays failed
\* or a storage request of the pass was rejected.
C21_PassReleasesGuard ==
  /\ [](\A h \in Hooks : task[h].pc = "idle" <=> ~hook[h].isSyncing)
  /\ \A h \in Hooks : hook[h].isSyncing ~> ~hook[h].isSyncing
  /\ \A h \in Hooks : (task[h].issued # <<>>) ~> (task[h].issued = <<>>)
  /\ \A h \in Hooks : (task[h].pc = "get") ~> (task[h].pc # "get")

\* a pass was ended by a rejected storage request before any replay was
\* recorded: the instance holds the operations it loaded, none was executed
\* or marked, and the guard is released
C21_ReleasedAfterStorageError ==
  \E h \in Hooks :
    /\ Len(hook[h].pendingOps) > 0
    /\ ~hook[h].isSyncing
    /\ task[h].pc = "idle"
    /\ faultBudget < MaxStorageFaults
    /\ isOnline
    /\ \A o \in queue : o.status = "pending"
    /\ \A id \in 1..MaxOps : remoteExec[id] = 0

(***************************************************************************)
(* The reconciliation at the end of a drain pass.                          *)
(***************************************************************************)
\* the case a queued operation changes; a create has none yet
TouchedCases(op) == IF op.type = "createCase" THEN {} ELSE {op.caseId}

\* the operations of a task whose replay returned true
ReplayedWithSuccess(t) ==
  {t.ops[i] : i \in {j \in 1..Len(t.returned) : t.returned[j][2]}}

\* C22: when a drain pass in which at least one operation was replayed with
\* success ends, the instance holds the pending list as the store has it,
\* and the list query and the detail query of every case a successfully
\* replayed operation touched are invalidated, so that their next read goes
\* to the remote store.
C22_PostDrainReconciliation ==
  [][\A h \in Hooks :
       (/\ task[h].pc = "reload"
        /\ task'[h].pc # "reload"
        /\ task[h].successCount > 0) =>
         /\ hook'[h].pendingOps = Copies(getPendingOperations(queue', principal))
         /\ KeyCases \in invalidated'
         /\ \A op \in ReplayedWithSuccess(task[h]) :
              \A id \in TouchedCases(op) : KeyCase(id) \in invalidated']_vars

(***************************************************************************)
(* Status updates and removals of operations that are gone.                *)
(***************************************************************************)
\* the operation with this id is not in the store
Absent(id) == \A o \in queue : o.id # id

\* C23: updateOperationStatus(id, ...) and removeOperation(id) for an id that
\* is not in the store (removed by the user or by another replay while this
\* one was in flight) leave the store as it is and complete: the replay goes
\* on as after any completed request, and no step of the replay or of the
\* dialog puts back an operation that was removed.
C23_AbsentOperationTolerated ==
  [][/\ {o.id : o \in queue'} \subseteq {o.id : o \in queue}
     /\ \A s \in Slots :
          (/\ task[s].pc \in {"mark", "fail", "remove"}
           /\ task'[s] # task[s]
           /\ faultBudget' = faultBudget
           /\ Absent(CurrentOp(s).id)) =>
            /\ queue' = queue
            /\ task[s].pc = "mark" => task'[s].pc = "remove"
            /\ task[s].pc = "remove" =>
                 task'[s].returned = Append(task[s].returned, <<CurrentOp(s).id, TRUE>>)
            /\ task[s].pc = "fail" =>
                 task'[s].returned = Append(task[s].returned, <<CurrentOp(s).id, FALSE>>)
     /\ \A opId \in 1..MaxOps :
          (removeOp(opId, TRUE) /\ Absent(opId)) => queue' = queue]_vars

\* the retry has marked its operation succeeded and is about to remove it,
\* and the operation is not in the store: the user removed it meanwhile
C23_RetriedOperationRemovedByUser ==
  /\ task["retry"].pc = "remove"
  /\ task["retry"].remote = "resolved"
  /\ Absent(task["retry"].ops[1].id)
  /\ \A i \in 1..Len(hook["dialog"].pendingOps) :
       hook["dialog"].pendingOps[i].id # task["retry"].ops[1].id
  /\ faultBudget = MaxStorageFaults

(***************************************************************************)
(* The detail cache of two principals.                                     *)
(***************************************************************************)
\* what the detail cache returns to principal `a` is the same before and
\* after the step
DetailsKeptFor(a) ==
  \A r \in CaseIds : getCaseCache(caseCache', a, r) = getCaseCache(caseCache, a, r)

\* C24: the detail cache has one entry per (principal, record id): saving
\* the detail of a record under principal B leaves what getCaseCache(A, r)
\* returns unchanged for every other principal A and every record r, and
\* clearCacheForPrincipal(B) removes no list or detail entry saved under A.
C24_DetailEntriesPerPrincipal ==
  [][\A b \in Principals :
       (\/ \E id \in CaseIds : SavesDetail(b, id)
        \/ ClearsCache(b)) =>
         \A a \in Principals \ {b} :
           /\ DetailsKeptFor(a)
           /\ getCaseListCache(listCache', a) = getCaseListCache(listCache, a)]_vars

(***************************************************************************)
(* The optimistic update against the remote store.                         *)
(***************************************************************************)
\* the case a mutation is about
CaseOfWrite(w) ==
  IF w.type \in {"updateCase", "deleteCase", "toggleChecklist"} THEN w.args.id
  ELSE w.args.caseId

\* the records with this id a list or a detail view holds
InList(list, id) ==
  IF list = Undefined THEN {}
  ELSE {list.cases[i] : i \in {j \in 1..Len(list.cases) : list.cases[j].id = id}}
InDetail(detail) == IF detail \in {Undefined, Null} THEN {} ELSE {detail}

\* two records are equal up to the ids of the to-dos that `old` did not have
SameUpToTempIds(a, b, old) ==
  /\ a.id = b.id
  /\ a.data = b.data
  /\ Len(a.todos) = Len(b.todos)
  /\ \A i \in 1..Len(a.todos) :
       /\ a.todos[i].description = b.todos[i].description
       /\ a.todos[i].complete = b.todos[i].complete
       /\ \/ a.todos[i].id = b.todos[i].id
          \/ \A j \in 1..Len(old.todos) :
               old.todos[j].id \notin {a.todos[i].id, b.todos[i].id}

\* what the actor holds under the id of `old` after it executed the call on
\* a store that held `old`
RemoteAfter(old, call) ==
  {c \in Execute(Actor(old.id, 0, {old}), call, 1).state.cases : c.id = old.id}

\* the record the actor creates for the call of a create
RemoteCreated(call) == casesGet(Execute(EmptyActor, call, 1).state.cases, 1)

\* C25: for every operation variant, the record the optimistic update leaves
\* in the view it changes equals, up to temporary ids, the record the remote
\* store holds after it executed the attempted call on the same prior
\* record: a create adds a record with the submitted fields and the to-dos
\* the remote store derives, an update replaces the fields and to-dos, a
\* delete removes the record, a toggle flips the flag, and the to-do
\* mutations append, flip and remove the to-do.
C25_OptimisticMirrorsRemote ==
  [][(/\ Len(writes') = Len(writes) + 1
      /\ writes'[Len(writes')].enqueued # <<>>) =>
       LET w == writes'[Len(writes')]
           call == w.calls[Len(w.calls)]
       IN IF w.type = "createCase"
          THEN /\ w.outcome = "returned"
               /\ \E c \in {qcCases'.cases[i] : i \in 1..Len(qcCases'.cases)} :
                    LET remote == RemoteCreated(call)
                    IN /\ \A f \in DOMAIN w.args.data \ {"arrivalDate"} :
                            c.data[f] = remote.data[f]
                       /\ w.args.data.arrivalDate # 0 =>
                            c.data.arrivalDate = remote.data.arrivalDate
                       /\ Len(c.todos) = Len(remote.todos)
                       /\ \A i \in 1..Len(c.todos) :
                            /\ c.todos[i].description = remote.todos[i].description
                            /\ c.todos[i].complete = remote.todos[i].complete
          ELSE IF w.type \in {"updateCase", "deleteCase"}
          THEN \A old \in InList(qcCases, CaseOfWrite(w)) :
                 LET local == InList(qcCases', old.id)
                     remote == RemoteAfter(old, call)
                 IN /\ Cardinality(local) = Cardinality(remote)
                    /\ \A a \in local : \A b \in remote : SameUpToTempIds(a, b, old)
          ELSE \A old \in InDetail(qcCase[CaseOfWrite(w)]) :
                 LET local == InDetail(qcCase'[old.id])
                     remote == RemoteAfter(old, call)
                 IN /\ Cardinality(local) = Cardinality(remote)
                    /\ \A a \in local : \A b \in remote : SameUpToTempIds(a, b, old)]_vars

(***************************************************************************)
(* The copies of the pending list.                                         *)
(***************************************************************************)
\* C26: retryOperation(id) and syncAll issue the remote call of an operation
\* only if the operation is in the store when the replay starts: an
\* operation that was removed from the store (replayed by another pass,
\* removed or cleared by the user) is never replayed from the copy of the
\* pending list an instance holds in memory.
C26_ReplayFromStore ==
  [][/\ (task["retry"].pc = "idle" /\ task'["retry"].pc = "call") =>
          ~Absent(task'["retry"].ops[1].id)
     /\ \A h \in Hooks :
          (task[h].pc = "get" /\ task'[h].pc = "call") =>
            \A i \in 1..Len(task'[h].ops) : ~Absent(task'[h].ops[i].id)]_vars

(***************************************************************************)
(* Temporary ids in the queue.                                             *)
(***************************************************************************)
\* operation `later` was issued against the object operation `earlier`
\* created under a temporary id
IssuedAgainst(later, earlier) ==
  /\ earlier.type = "addTodo"
  /\ later.type \in {"toggleTodo", "deleteTodo"}
  /\ later.caseId = earlier.caseId
  /\ later.todoId = earlier.tempId.digits
  /\ earlier.id < later.id

\* the to-dos of a case of the actor that the replay of `earlier` produced
Produced(b, earlier) ==
  LET todos == casesGet(b.cases, earlier.caseId).todos
  IN {todos[i] : i \in {j \in 1..Len(todos) :
                          todos[j].description = earlier.description}}

\* C27: when a FIFO drain pass has replayed with success a queued creation
\* and a later operation that was issued against the optimistic record with
\* the temporary id of that creation, the later operation was replayed
\* against the object the replayed creation produced: the remote store shows
\* its effect on that object, and neither operation is left in the queue.
C27_TempIdsReconciled ==
  [][\A h \in Hooks :
       (task[h].pc = "reload" /\ task'[h].pc # "reload") =>
         \A earlier \in ReplayedWithSuccess(task[h]) :
           \A later \in ReplayedWithSuccess(task[h]) :
             IssuedAgainst(later, earlier) =>
               /\ \A o \in queue' : o.id \notin {earlier.id, later.id}
               /\ later.type = "toggleTodo" =>
                    \A todo \in Produced(backend', earlier) : todo.complete
               /\ later.type = "deleteTodo" => Produced(backend', earlier) = {}]_vars

(***************************************************************************)
(* Ids the actor assigns.                                                  *)
(***************************************************************************)
\* the to-dos of case `caseId` of actor `b` that have id `todoId`
TodosWithId(b, caseId, todoId) ==
  LET todos == casesGet(b.cases, caseId).todos
  IN {i \in 1..Len(todos) : todos[i].id = todoId}

\* C28: after any sequence of createCase, importCases, addTodoItem,
\* updateCase and deleteCase, the id a createCase returns is the id of no
\* case in the store, the to-dos it creates have pairwise different ids, and
\* the to-do id an addTodoItem assigns is the id of no to-do already in the
\* case, so that exactly one to-do of the case has that id afterwards.
C28_AssignedIdsFresh ==
  [][/\ \A data \in Forms :
          LET reply == createCase(backend, data, getCheckedTodoDescriptions(data), 1)
          IN (backend' = reply.state /\ backend' # backend) =>
               /\ reply.value \notin StoredIds(backend)
               /\ \A todoId \in TodoIdsOf(casesGet(backend'.cases, reply.value)) :
                    Cardinality(TodosWithId(backend', reply.value, todoId)) = 1
     /\ \A caseId \in StoredIds(backend) :
          LET reply == addTodoItem(backend, caseId, "Call owner")
          IN (backend' = reply.state /\ backend' # backend) =>
               /\ reply.value \notin TodoIdsOf(casesGet(backend.cases, caseId))
               /\ Cardinality(TodosWithId(backend', caseId, reply.value)) = 1]_vars

\* the case-id half of C28 alone
C28_CaseIdsFresh ==
  [][\A data \in Forms :
       LET reply == createCase(backend, data, getCheckedTodoDescriptions(data), 1)
       IN (backend' = reply.state /\ backend' # backend) =>
            reply.value \notin StoredIds(backend)]_vars

(***************************************************************************)
(* What a queued checklist toggle returns.                                 *)
(***************************************************************************)
\* C29: when a checklist toggle is queued after a failure classified as a
\* network error and the detail of the case is cached, the boolean the
\* mutation returns is the value of the flag in the cached detail after the
\* optimistic flip, which is the value the toggle method of the remote store
\* returns for the same prior record.
C29_QueuedToggleReturnsNewValue ==
  [][(/\ Len(writes') = Len(writes) + 1
      /\ writes'[Len(writes')].type = "toggleChecklist"
      /\ writes'[Len(writes')].outcome = "returned"
      /\ writes'[Len(writes')].enqueued # <<>>) =>
       LET w == writes'[Len(writes')]
           call == w.calls[Len(w.calls)]
       IN \A old \in InDetail(qcCase[w.args.id]) :
            /\ w.value = qcCase'[w.args.id].data[FlagOf(w.args.field)]
            /\ w.value = toggleFlag(Actor(old.id, 0, {old}), call.method, old.id).value]_vars

(***************************************************************************)
(* The order of enqueue and optimistic update.                             *)
(***************************************************************************)
\* C30: in every mutation the operation is enqueued before the query data
\* are changed: when the storage rejects the enqueue that follows a network
\* failure of the remote call, the mutation throws the storage error and
\* the cached list and details are as they were; and whenever a mutation
\* changes the cached list or a cached detail, the store holds a new pending
\* operation of the type of the mutation, for the case it changes.
C30_EnqueueBeforeOptimistic ==
  [][Len(writes') = Len(writes) + 1 =>
       LET w == writes'[Len(writes')]
       IN /\ faultBudget' < faultBudget =>
               /\ isNetworkError(ErrorOf(w.failure))
               /\ w.enqueued = <<>>
               /\ w.outcome = "threw"
               /\ w.value = MsgQuota
               /\ queue' = queue
               /\ qcCases' = qcCases
               /\ qcCase' = qcCase
          /\ (qcCases' # qcCases \/ qcCase' # qcCase) =>
               \E o \in queue' \ queue :
                 /\ <<o.id>> = w.enqueued
                 /\ o.status = "pending"
                 /\ o.type = w.type
                 /\ o.principal = principal
                 /\ w.type # "createCase" => o.caseId = CaseOfWrite(w)]_vars

\* a mutation whose remote call failed with a network error threw the
\* storage error of the enqueue
C30_EnqueueRejected ==
  \E i \in 1..Len(writes) :
    /\ writes[i].failure # NoError
    /\ isNetworkError(ErrorOf(writes[i].failure))
    /\ writes[i].outcome = "threw"
    /\ writes[i].value = MsgQuota
    /\ writes[i].enqueued = <<>>

(***************************************************************************)
(* Optimistic changes and the reads that follow them.                      *)
(***************************************************************************)
\* the operation a mutation of this session enqueued is pending or failed
StillQueued(w) ==
  \E o \in queue : <<o.id>> = w.enqueued /\ o.status \in {"pending", "failed"}

\* the detail of case 1 shows what the mutation changed: the flag is the
\* opposite of the one the remote store holds, or the new to-do is listed
ReflectsEffect(w) ==
  /\ qcCase[1] \notin {Undefined, Null}
  /\ w.type = "toggleChecklist" =>
       qcCase[1].data[FlagOf(w.args.field)] = ~Remote1.data[FlagOf(w.args.field)]
  /\ w.type = "addTodo" =>
       \E i \in 1..Len(qcCase[1].todos) :
         qcCase[1].todos[i].description = w.args.description

\* C31: while the operation a mutation enqueued is pending or failed in the
\* queue, the detail view the mutation changed shows its effect, whatever
\* invalidation and re-fetch (from the remote store or from the durable
\* cache) came after the mutation.
C31_PendingChangesVisible ==
  \A i \in 1..Len(writes) :
    (writes[i].outcome = "returned" /\ writes[i].enqueued # <<>> /\ StillQueued(writes[i]))
      => ReflectsEffect(writes[i])

\* the second half of C31 alone: a mutation leaves the durable list and
\* detail caches as they were
C31_WritePathLeavesCache ==
  [][Len(writes') # Len(writes) => (listCache' = listCache /\ caseCache' = caseCache)]_vars

(***************************************************************************)
(* Operations enqueued while a drain pass is in flight.                    *)
(***************************************************************************)
\* the operations of the store that are pending and came after the snapshot
\* of the pass of instance `h`, which is in flight: their keys are larger
\* than every key of the snapshot
EnqueuedDuring(h) ==
  {o \in queue :
     /\ task[h].ops # <<>>
     /\ o.status = "pending"
     /\ \A n \in 1..Len(task[h].ops) : task[h].ops[n].id < o.id}

\* the pass of instance `h` ends in this step
PassEnds(h) == task[h].ops # <<>> /\ task'[h].ops = <<>>

\* an operation enqueued in this step is not in the snapshot of the pass
NewNotInSnapshot(h) ==
  \A o \in queue' :
    (\A p \in queue : p.id # o.id) =>
      /\ o.status = "pending"
      /\ \A n \in 1..Len(task[h].ops) : task[h].ops[n].id # o.id

\* the step leaves the operation in the store, pending, and the pass has not
\* issued its remote call
KeptForNextPass(h, o) ==
  /\ \A n \in 1..Len(task'[h].issued) : task'[h].issued[n] # o.id
  /\ \A n \in 1..Len(task[h].issued) : task[h].issued[n] # o.id
  /\ \E p \in queue' : p.id = o.id /\ p.status = "pending"

\* the pending list and count of the instance include the operation
Exposed(h, o) == \E n \in 1..Len(hook'[h].pendingOps) : hook'[h].pendingOps[n].id = o.id

====
